---- MODULE Spec2Model ----
(***************************************************************************)
(* A model of the naivecoin node: transactions and the UTXO engine          *)
(* (transactions), the mempool (txpool), the wallet (wallet), the block and *)
(* chain validator with proof of work and difficulty retargeting            *)
(* (blockchain) and the peer reconciliation handlers (p2p).                 *)
(*                                                                          *)
(* Representation.  Go's 1-based/0-based difference: a Go slice s is the    *)
(* sequence s with s[i] in Go being s[i+1] here.  A SHA-256 digest is an    *)
(* ideal (collision free) hash: the digest of a value is the tuple of what  *)
(* was hashed.  The empty Go string (an empty id, hash or signature) is the *)
(* empty tuple.  Amounts are integers, on which float64 arithmetic is exact.*)
(***************************************************************************)
EXTENDS Integers, Sequences, FiniteSets, TLC

(***************************************************************************)
(* Program constants                                                        *)
(***************************************************************************)
coinBaseAmount == 50
blockGenerationInterval == 10
difficultyAdjustmentInterval == 10

\* Timestamps are unsigned: arithmetic on them wraps modulo TsModulus.  The
\* source's width is 64 bits; the model keeps the wrap at a width TLC's
\* integers can hold.
TsModulus == 2^16
U64Sub(a, b) == (a - b) % TsModulus

EmptyString == <<>>

(***************************************************************************)
(* Generic sequence helpers                                                 *)
(***************************************************************************)
RECURSIVE SumSeq(_)
SumSeq(s) == IF s = <<>> THEN 0 ELSE Head(s) + SumSeq(Tail(s))

RECURSIVE Flatten(_)
Flatten(ss) == IF ss = <<>> THEN <<>> ELSE Head(ss) \o Flatten(Tail(ss))

Last(s) == s[Len(s)]

\* fmt.Sprint of a non-negative int, as the sequence of its decimal digits
RECURSIVE Sprint(_)
Sprint(n) == IF n < 10 THEN <<n>> ELSE Sprint(n \div 10) \o <<n % 10>>

(***************************************************************************)
(* utils: hashing and signatures                                            *)
(***************************************************************************)
\* utils.Hash: an injective digest, the tagged value that was hashed
Hash(o) == <<"sha256", o>>

\* The number of leading zero bits of a digest's binary expansion
\* (utils.HexToBin of the hex digest).  SHA-256 is modelled by a digest whose
\* leading zero bits are set by the nonce of the block fields it hashes, so
\* that a search over nonces 0, 1, 2, ... meets every difficulty.
LeadingZeroBits(hash) ==
    IF Len(hash) = 2 /\ hash[1] = "sha256" THEN hash[2].Nonce ELSE 0

\* utils.GetSignature(hash, privateKey): a signature names the key that made
\* it and the hash it signs; keys are named by the address they belong to.
GetSignature(hash, address) == <<address, hash>>

\* utils.VerifySignature(hash, sig, publicKey); a malformed or empty
\* signature verifies false
VerifySignature(hash, sig, address) == sig = <<address, hash>>

(***************************************************************************)
(* transactions                                                             *)
(***************************************************************************)
TxIn(id, idx, sig) == [TxOutId |-> id, TxOutIndex |-> idx, Signature |-> sig]
TxOut(addr, amt) == [Address |-> addr, Amount |-> amt]
UnspentTxOut(id, idx, addr, amt) ==
    [TxOutId |-> id, TxOutIndex |-> idx, Address |-> addr, Amount |-> amt]

\* TxIn.Content: the signature is left out
TxInContent(t) == <<t.TxOutId, t.TxOutIndex>>
TxInCollectionContent(ins) == [n \in 1..Len(ins) |-> TxInContent(ins[n])]
TxOutContent(t) == <<t.Address, t.Amount>>
TxOutCollectionContent(outs) == [n \in 1..Len(outs) |-> TxOutContent(outs[n])]

GetTransactionId(tx) ==
    Hash(<<TxInCollectionContent(tx.TxIns), TxOutCollectionContent(tx.TxOuts)>>)

Transaction(ins, outs) ==
    [Id |-> GetTransactionId([TxIns |-> ins, TxOuts |-> outs]),
     TxIns |-> ins, TxOuts |-> outs]

\* index of the first entry of unspentTxOuts_ with the given reference, 0 if none
FirstMatch(txOutId, txOutIndex, unspentTxOuts_) ==
    LET hits == {n \in 1..Len(unspentTxOuts_) :
                    /\ unspentTxOuts_[n].TxOutId = txOutId
                    /\ unspentTxOuts_[n].TxOutIndex = txOutIndex}
    IN IF hits = {} THEN 0 ELSE CHOOSE n \in hits : \A m \in hits : n <= m

findUnspentTxOut(txOutId, txOutIndex, unspentTxOuts_) ==
    LET n == FirstMatch(txOutId, txOutIndex, unspentTxOuts_)
    IN IF n = 0 THEN [err |-> TRUE] ELSE [err |-> FALSE, val |-> unspentTxOuts_[n]]

\* validateTxIn without the signature check
validateTxInUnsigned(txIn, transaction, unspentTxOuts_) ==
    ~findUnspentTxOut(txIn.TxOutId, txIn.TxOutIndex, unspentTxOuts_).err

validateTxIn(txIn, transaction, unspentTxOuts_) ==
    LET r == findUnspentTxOut(txIn.TxOutId, txIn.TxOutIndex, unspentTxOuts_)
    IN /\ ~r.err
       /\ VerifySignature(transaction.Id, txIn.Signature, r.val.Address)

getTxInAmount(txIn, unspentTxOuts_) ==
    LET r == findUnspentTxOut(txIn.TxOutId, txIn.TxOutIndex, unspentTxOuts_)
    IN IF r.err THEN 0 ELSE r.val.Amount

GetCoinbaseTransaction(address, blockIndex) ==
    Transaction(<<TxIn(EmptyString, blockIndex, EmptyString)>>,
                <<TxOut(address, coinBaseAmount)>>)

ValidateTransaction(transaction, unspentTxOuts_) ==
    /\ GetTransactionId(transaction) = transaction.Id
    /\ \A n \in 1..Len(transaction.TxIns) :
          validateTxIn(transaction.TxIns[n], transaction, unspentTxOuts_)
    /\ SumSeq([n \in 1..Len(transaction.TxIns) |->
                  getTxInAmount(transaction.TxIns[n], unspentTxOuts_)])
         = SumSeq([n \in 1..Len(transaction.TxOuts) |-> transaction.TxOuts[n].Amount])

validateCoinbaseTx(transaction, blockIndex) ==
    /\ GetTransactionId(transaction) = transaction.Id
    /\ Len(transaction.TxIns) = 1
    /\ transaction.TxIns[1].TxOutIndex = blockIndex
    /\ Len(transaction.TxOuts) = 1
    /\ transaction.TxOuts[1].Amount = coinBaseAmount

\* the map key of hasDuplicateTxIns: TxOutId + fmt.Sprint(TxOutIndex)
TxInKey(txIn) == txIn.TxOutId \o Sprint(txIn.TxOutIndex)

hasDuplicateTxIns(txIns) ==
    \E n, m \in 1..Len(txIns) : n < m /\ TxInKey(txIns[n]) = TxInKey(txIns[m])

FlattenTxIns(transactions) ==
    Flatten([n \in 1..Len(transactions) |-> transactions[n].TxIns])

validateBlockTransactions(transactions, unspentTxOuts_, blockIndex) ==
    /\ Len(transactions) # 0
    /\ validateCoinbaseTx(transactions[1], blockIndex)
    /\ ~hasDuplicateTxIns(FlattenTxIns(transactions))
    /\ \A n \in 2..Len(transactions) :
          ValidateTransaction(transactions[n], unspentTxOuts_)

NewUnspentTxOuts(transactions) ==
    Flatten([i \in 1..Len(transactions) |->
        [j \in 1..Len(transactions[i].TxOuts) |->
            UnspentTxOut(transactions[i].Id, j - 1,
                         transactions[i].TxOuts[j].Address,
                         transactions[i].TxOuts[j].Amount)]])

\* updateUnspentTxOuts that leaves the inputs of the last transaction unspent
updateUnspentTxOutsButLast(transactions, unspentTxOuts_) ==
    LET consumedTxOuts == FlattenTxIns(SubSeq(transactions, 1, Len(transactions) - 1))
        NotConsumed(u) == FirstMatch(u.TxOutId, u.TxOutIndex, consumedTxOuts) = 0
    IN SelectSeq(unspentTxOuts_, NotConsumed) \o NewUnspentTxOuts(transactions)

updateUnspentTxOuts(transactions, unspentTxOuts_) ==
    LET consumedTxOuts == FlattenTxIns(transactions)
        NotConsumed(u) == FirstMatch(u.TxOutId, u.TxOutIndex, consumedTxOuts) = 0
    IN SelectSeq(unspentTxOuts_, NotConsumed) \o NewUnspentTxOuts(transactions)

ProcessTransactions(transactions, unspentTxOuts_, blockIndex) ==
    IF ~validateBlockTransactions(transactions, unspentTxOuts_, blockIndex)
    THEN [err |-> TRUE, val |-> <<>>]
    ELSE [err |-> FALSE, val |-> updateUnspentTxOuts(transactions, unspentTxOuts_)]

(***************************************************************************)
(* blockchain: blocks, difficulty, validation                               *)
(***************************************************************************)
BlockFields(index, prevHash, ts, transactions, difficulty, nonce) ==
    [Index |-> index, PrevHash |-> prevHash, Ts |-> ts,
     Transactions |-> transactions, Difficulty |-> difficulty, Nonce |-> nonce]

Block(fields, hash) == [Fields |-> fields, Hash |-> hash]

GenesisAddress == "S7H2"

GenesisTransaction ==
    [TxIns |-> <<TxIn(EmptyString, 0, EmptyString)>>,
     TxOuts |-> <<TxOut(GenesisAddress, 50)>>,
     Id |-> GetTransactionId([TxIns |-> <<TxIn(EmptyString, 0, EmptyString)>>,
                              TxOuts |-> <<TxOut(GenesisAddress, 50)>>])]

GenesisBlock ==
    Block(BlockFields(0, EmptyString, 0, <<GenesisTransaction>>, 0, 0), <<"fbf56e4c">>)

GetLatestBlock(blockchain_) == blockchain_[Len(blockchain_)]

getAdjustedDifficulty(blockchain_, latestBlock) ==
    IF latestBlock.Fields.Index + 1 < difficultyAdjustmentInterval
    THEN 0
    ELSE LET prevAdjustmentBlock ==
                 blockchain_[latestBlock.Fields.Index + 1 - difficultyAdjustmentInterval + 1]
             timeExpected == blockGenerationInterval * difficultyAdjustmentInterval
             timeTaken == U64Sub(latestBlock.Fields.Ts, prevAdjustmentBlock.Fields.Ts)
         IN IF timeTaken < timeExpected \div 2
            THEN prevAdjustmentBlock.Fields.Difficulty + 1
            ELSE IF timeTaken > timeExpected * 2
            THEN (IF prevAdjustmentBlock.Fields.Difficulty - 1 < 0
                  THEN 0 ELSE prevAdjustmentBlock.Fields.Difficulty - 1)
            ELSE prevAdjustmentBlock.Fields.Difficulty

getDifficulty(blockchain_, latestBlock) ==
    LET adjustmentIntervalIsReached ==
            latestBlock.Fields.Index % difficultyAdjustmentInterval = 0
        isGenesisBlock == latestBlock.Fields.Index = 0
    IN IF adjustmentIntervalIsReached /\ ~isGenesisBlock
       THEN getAdjustedDifficulty(blockchain_, latestBlock)
       ELSE latestBlock.Fields.Difficulty

hashMatchesDifficulty(hash, difficulty) == LeadingZeroBits(hash) >= difficulty

IsValidBlock(blockchain_, prevBlock, block, now_) ==
    LET isSuccessor == prevBlock.Fields.Index + 1 = block.Fields.Index
        includesPrevBlockHash == prevBlock.Hash = block.Fields.PrevHash
        hashIsValid == Hash(block.Fields) = block.Hash
        prevBlockIsGenesisBlock == prevBlock.Fields.Index = 0
        olderThanPrevBlock == U64Sub(prevBlock.Fields.Ts, 60) >= block.Fields.Ts
        farInTheFuture == U64Sub(block.Fields.Ts, 60) >= now_
    IN /\ isSuccessor
       /\ includesPrevBlockHash
       /\ hashIsValid
       /\ ~(~prevBlockIsGenesisBlock /\ (olderThanPrevBlock \/ farInTheFuture))
       /\ getDifficulty(blockchain_, prevBlock) = block.Fields.Difficulty
       /\ hashMatchesDifficulty(block.Hash, block.Fields.Difficulty)

GetCumulativeDifficulty(blockchain_) ==
    SumSeq([n \in 1..Len(blockchain_) |-> 2^(blockchain_[n].Fields.Difficulty)])

\* IsValidBlockChain: the fold of lines 309-322 over blocks n, n+1, ...
RECURSIVE ValidateFrom(_, _, _, _)
ValidateFrom(blockchain_, n, unspentTxOuts_, now_) ==
    IF n > Len(blockchain_) THEN [err |-> FALSE, val |-> unspentTxOuts_]
    ELSE IF n # 1 /\ ~IsValidBlock(blockchain_, blockchain_[n - 1], blockchain_[n], now_)
    THEN [err |-> TRUE, val |-> <<>>]
    ELSE LET r == ProcessTransactions(blockchain_[n].Fields.Transactions,
                                      unspentTxOuts_, blockchain_[n].Fields.Index)
         IN IF r.err THEN r ELSE ValidateFrom(blockchain_, n + 1, r.val, now_)

IsValidBlockChain(blockchain_, now_) ==
    IF blockchain_[1] # GenesisBlock THEN [err |-> TRUE, val |-> <<>>]
    ELSE ValidateFrom(blockchain_, 1, <<>>, now_)

(***************************************************************************)
(* txpool                                                                   *)
(***************************************************************************)
hasTxIn(txIn, unspentTxOuts_) ==
    FirstMatch(txIn.TxOutId, txIn.TxOutIndex, unspentTxOuts_) # 0

UpdateTransactionPool(txPool_, unspentTxOuts_) ==
    LET isValid(t) == \A j \in 1..Len(t.TxIns) : hasTxIn(t.TxIns[j], unspentTxOuts_)
    IN SelectSeq(txPool_, isValid)

containsTxIn(txIns, txIn) == FirstMatch(txIn.TxOutId, txIn.TxOutIndex, txIns) # 0

getTxPoolIns(txPool_) == FlattenTxIns(txPool_)

isValidTxForPool(tx, txPool_) ==
    \A n \in 1..Len(tx.TxIns) : ~containsTxIn(getTxPoolIns(txPool_), tx.TxIns[n])

\* the two checks of AddToTransactionPool
PoolAccepts(tx, unspentTxOuts_, txPool_) ==
    /\ ValidateTransaction(tx, unspentTxOuts_)
    /\ isValidTxForPool(tx, txPool_)

AddToTransactionPool(tx, unspentTxOuts_, txPool_) ==
    IF PoolAccepts(tx, unspentTxOuts_, txPool_)
    THEN [err |-> FALSE, val |-> Append(txPool_, tx)]
    ELSE [err |-> TRUE, val |-> txPool_]

(***************************************************************************)
(* wallet                                                                   *)
(***************************************************************************)
FindUnspentTxOuts(address, unspentTxOuts_) ==
    SelectSeq(unspentTxOuts_, LAMBDA u : u.Address = address)

GetBalance(address, unspentTxOuts_) ==
    LET mine == FindUnspentTxOuts(address, unspentTxOuts_)
    IN SumSeq([n \in 1..Len(mine) |-> mine[n].Amount])

filterTxPoolTxs(unspentTxOuts_, txPool_) ==
    LET txInsFlattened == FlattenTxIns(txPool_)
    IN SelectSeq(unspentTxOuts_,
                 LAMBDA u : FirstMatch(u.TxOutId, u.TxOutIndex, txInsFlattened) = 0)

\* the shortest prefix of unspentTxOuts_ whose amounts reach amount
FindTxOutsForAmount(amount, unspentTxOuts_) ==
    LET PrefixSum(n) == SumSeq([k \in 1..n |-> unspentTxOuts_[k].Amount])
        reach == {n \in 1..Len(unspentTxOuts_) : PrefixSum(n) >= amount}
    IN IF reach = {}
       THEN [err |-> TRUE, included |-> <<>>, leftOverAmount |-> amount]
       ELSE LET n == CHOOSE k \in reach : \A m \in reach : k <= m
            IN [err |-> FALSE, included |-> SubSeq(unspentTxOuts_, 1, n),
                leftOverAmount |-> PrefixSum(n) - amount]

CreateTxOuts(targetAddress, sourceAddress, amount, leftOverAmount) ==
    IF leftOverAmount = 0
    THEN <<TxOut(targetAddress, amount)>>
    ELSE <<TxOut(targetAddress, amount), TxOut(sourceAddress, leftOverAmount)>>

toUnsignedTxIn(unspentTxOut) ==
    TxIn(unspentTxOut.TxOutId, unspentTxOut.TxOutIndex, EmptyString)

\* SignTxIn: the empty signature when the referenced output is missing or is
\* not the wallet's
SignTxIn(transaction, txIn, myAddress, unspentTxOuts_) ==
    LET r == findUnspentTxOut(txIn.TxOutId, txIn.TxOutIndex, unspentTxOuts_)
    IN IF r.err \/ r.val.Address # myAddress THEN EmptyString
       ELSE GetSignature(transaction.Id, myAddress)

\* CreateTransaction ignores the error of FindTxOutsForAmount
CreateTransaction(targetAddress, amount, unspentTxOuts_, txPool_, myAddress) ==
    LET myUnspentTxOuts ==
            filterTxPoolTxs(FindUnspentTxOuts(myAddress, unspentTxOuts_), txPool_)
        found == FindTxOutsForAmount(amount, myUnspentTxOuts)
        unsignedTxIns == [n \in 1..Len(found.included) |->
                             toUnsignedTxIn(found.included[n])]
        tx == Transaction(unsignedTxIns,
                          CreateTxOuts(targetAddress, myAddress, amount,
                                       found.leftOverAmount))
    IN [tx EXCEPT !.TxIns = [n \in 1..Len(unsignedTxIns) |->
            [unsignedTxIns[n] EXCEPT
                !.Signature = SignTxIn(tx, unsignedTxIns[n], myAddress, unspentTxOuts_)]]]

(***************************************************************************)
(* blockchain: the node's ledger and the operations on it.  A ledger is the *)
(* tuple of the package variables blockchain, unspentTxOuts, txPool and     *)
(* cumulativeBlocksDifficulty; each operation below is the function from    *)
(* the ledger it runs on to the ledger it leaves, with the frames it        *)
(* broadcasts.                                                              *)
(***************************************************************************)
Ledger(chain, utxos, pool, cum) ==
    [blockchain |-> chain, unspentTxOuts |-> utxos, txPool |-> pool,
     cumulativeBlocksDifficulty |-> cum]

\* the package variables as initialised (lines 74, 82, 86 and txpool line 10)
InitialLedger ==
    Ledger(<<GenesisBlock>>,
           ProcessTransactions(GenesisBlock.Fields.Transactions, <<>>, 0).val,
           <<>>, 0)

Frame(code, data) == [Code |-> code, Data |-> data]

\* p2p Network.BroadcastLatest and BroadcastTransactionPool: the frame sent
\* to every peer
BroadcastLatest(st) == Frame("BLOCKCHAIN", <<GetLatestBlock(st.blockchain)>>)
BroadcastTransactionPool(st) == Frame("TX_POOL", st.txPool)

AddBlockToChain(st, newBlock, now_) ==
    IF IsValidBlock(st.blockchain, GetLatestBlock(st.blockchain), newBlock, now_)
    THEN LET r == ProcessTransactions(newBlock.Fields.Transactions,
                                      st.unspentTxOuts, newBlock.Fields.Index)
         IN IF r.err THEN [ok |-> FALSE, st |-> st]
            ELSE [ok |-> TRUE,
                  st |-> Ledger(Append(st.blockchain, newBlock),
                                r.val,
                                UpdateTransactionPool(st.txPool, r.val),
                                st.cumulativeBlocksDifficulty
                                    + 2^(newBlock.Fields.Difficulty))]
    ELSE [ok |-> FALSE, st |-> st]

\* line 354-356: the stored difficulty is computed on first use
InitCumulative(st) ==
    IF st.cumulativeBlocksDifficulty = 0
    THEN [st EXCEPT !.cumulativeBlocksDifficulty = GetCumulativeDifficulty(st.blockchain)]
    ELSE st

\* line 359: the fork choice; TRUE when the received chain is refused
KeepsLocal(storedDifficulty, newDifficulty) == storedDifficulty >= newDifficulty

ReplaceChain(st, newBlocks, now_) ==
    LET v == IsValidBlockChain(newBlocks, now_)
        st1 == InitCumulative(st)
        newCumulativeBlocksDifficulty == GetCumulativeDifficulty(newBlocks)
    IN IF v.err THEN [err |-> TRUE, st |-> st, out |-> <<>>]
       ELSE IF KeepsLocal(st1.cumulativeBlocksDifficulty, newCumulativeBlocksDifficulty)
       THEN [err |-> TRUE, st |-> st1, out |-> <<>>]
       ELSE LET st2 == Ledger(newBlocks, v.val,
                              UpdateTransactionPool(st1.txPool, v.val),
                              newCumulativeBlocksDifficulty)
            IN [err |-> FALSE, st |-> st2, out |-> <<BroadcastLatest(st2)>>]

\* the proof-of-work loop of produceBlock: nonces 0, 1, 2, ...
RECURSIVE FindNonce(_)
FindNonce(blockFields) ==
    IF hashMatchesDifficulty(Hash(blockFields), blockFields.Difficulty)
    THEN blockFields
    ELSE FindNonce([blockFields EXCEPT !.Nonce = @ + 1])

\* lines 163-180: the block the miner finds on the chain it reads
MineOn(blockchain_, transactions, now_) ==
    LET lastBlock == blockchain_[Len(blockchain_)]
        blockFields == FindNonce(
            BlockFields(lastBlock.Fields.Index + 1, lastBlock.Hash, now_,
                        transactions, getDifficulty(blockchain_, lastBlock), 0))
    IN Block(blockFields, Hash(blockFields))

produceBlock(st, transactions, now_) ==
    LET newBlock == MineOn(st.blockchain, transactions, now_)
        r == AddBlockToChain(st, newBlock, now_)
    IN IF r.ok
       THEN [err |-> FALSE, st |-> r.st, out |-> <<BroadcastLatest(r.st)>>]
       ELSE [err |-> TRUE, st |-> r.st, out |-> <<>>]

ProduceNextBlock(st, now_, myAddress) ==
    LET coinbaseTx == GetCoinbaseTransaction(
            myAddress, GetLatestBlock(st.blockchain).Fields.Index + 1)
    IN produceBlock(st, <<coinbaseTx>> \o st.txPool, now_)

\* transactions.IsValidBase58Address: every address of the model but
\* BadAddress stands for the encoding of a 65-byte public key
BadAddress == "x"
IsValidBase58Address(base58Address) == base58Address # BadAddress

SendCoinsToAddress(st, address, amount, now_, myAddress) ==
    IF amount <= 0 THEN [err |-> TRUE, st |-> st, out |-> <<>>]
    ELSE IF ~IsValidBase58Address(address) THEN [err |-> TRUE, st |-> st, out |-> <<>>]
    ELSE LET coinbaseTx == GetCoinbaseTransaction(
                 myAddress, GetLatestBlock(st.blockchain).Fields.Index + 1)
             normalTx == CreateTransaction(address, amount, st.unspentTxOuts,
                                           st.txPool, myAddress)
         IN produceBlock(st, <<coinbaseTx, normalTx>>, now_)

SendTransaction(st, address, amount, myAddress) ==
    IF amount <= 0 THEN [err |-> TRUE, st |-> st, out |-> <<>>]
    ELSE LET tx == CreateTransaction(address, amount, st.unspentTxOuts,
                                     st.txPool, myAddress)
             r == AddToTransactionPool(tx, st.unspentTxOuts, st.txPool)
             st1 == [st EXCEPT !.txPool = r.val]
         IN IF r.err THEN [err |-> TRUE, st |-> st, out |-> <<>>]
            ELSE [err |-> FALSE, st |-> st1, out |-> <<BroadcastTransactionPool(st1)>>]

HandleReceivedTransaction(st, transaction) ==
    LET r == AddToTransactionPool(transaction, st.unspentTxOuts, st.txPool)
    IN [err |-> r.err, st |-> [st EXCEPT !.txPool = r.val]]

(***************************************************************************)
(* p2p: the message handlers, run without interleaving                      *)
(***************************************************************************)
\* BlocksBranch with the index test of line 142 written >= : a tip of the
\* local tip's own index counts as new
BlocksBranchGe(blocks, latestBlockHeld) ==
    IF Len(blocks) = 0 THEN "empty"
    ELSE LET latestBlockReceived == blocks[Len(blocks)]
         IN IF latestBlockReceived.Fields.Index >= latestBlockHeld.Fields.Index
            THEN IF latestBlockHeld.Hash = latestBlockReceived.Fields.PrevHash
                 THEN "append"
                 ELSE IF Len(blocks) = 1 THEN "query" ELSE "replace"
            ELSE "ignore"

\* BlocksBranch without the test of line 150: a lone block that does not fit
\* the tip is handed to ReplaceChain
BlocksBranchNoQuery(blocks, latestBlockHeld) ==
    IF Len(blocks) = 0 THEN "empty"
    ELSE LET latestBlockReceived == blocks[Len(blocks)]
         IN IF latestBlockReceived.Fields.Index > latestBlockHeld.Fields.Index
            THEN IF latestBlockHeld.Hash = latestBlockReceived.Fields.PrevHash
                 THEN "append"
                 ELSE "replace"
            ELSE "ignore"

\* the branch handleReceivedBlocks takes on a payload, given the tip it read
BlocksBranch(blocks, latestBlockHeld) ==
    IF Len(blocks) = 0 THEN "empty"
    ELSE LET latestBlockReceived == blocks[Len(blocks)]
         IN IF latestBlockReceived.Fields.Index > latestBlockHeld.Fields.Index
            THEN IF latestBlockHeld.Hash = latestBlockReceived.Fields.PrevHash
                 THEN "append"
                 ELSE IF Len(blocks) = 1 THEN "query" ELSE "replace"
            ELSE "ignore"

handleReceivedBlocks(st, blocks, now_) ==
    LET branch == BlocksBranch(blocks, GetLatestBlock(st.blockchain))
    IN CASE branch = "append" ->
              LET r == AddBlockToChain(st, blocks[Len(blocks)], now_)
              IN [st |-> r.st, branch |-> branch, err |-> ~r.ok,
                  out |-> IF r.ok THEN <<BroadcastLatest(r.st)>> ELSE <<>>]
         [] branch = "query" ->
              [st |-> st, branch |-> branch, err |-> FALSE,
               out |-> <<Frame("GET_ALL_BLOCKS", <<>>)>>]
         [] branch = "replace" ->
              LET r == ReplaceChain(st, blocks, now_)
              IN [st |-> r.st, branch |-> branch, err |-> r.err, out |-> r.out]
         [] OTHER -> [st |-> st, branch |-> branch, err |-> FALSE, out |-> <<>>]

\* the TX_POOL case of handleMessage: each transaction is offered in turn and
\* every admission broadcasts the pool
RECURSIVE handleTxPool(_, _)
handleTxPool(st, txs) ==
    IF txs = <<>> THEN [st |-> st, out |-> <<>>]
    ELSE LET r == HandleReceivedTransaction(st, Head(txs))
             rest == handleTxPool(r.st, Tail(txs))
         IN [st |-> rest.st,
             out |-> (IF r.err THEN <<>> ELSE <<BroadcastTransactionPool(r.st)>>)
                       \o rest.out]

(***************************************************************************)
(* State                                                                    *)
(***************************************************************************)
VARIABLES
    blockchain,                   \* blockchain: var blockchain []Block
    unspentTxOuts,                \* blockchain: var unspentTxOuts
    txPool,                       \* txpool: var txPool
    cumulativeBlocksDifficulty,   \* blockchain: var cumulativeBlocksDifficulty
    Lock,                         \* blockchain: var Lock, its holder or NoWorker
    worker,                       \* the goroutines at work and where each stands
    now,                          \* the clock read by time.Now().Unix()
    last,                         \* the operation that ran last and what it returned;
                                  \* last.n flips each time an operation runs
    peer,                         \* the package variables of a second node
    net,                          \* the websocket between the two nodes: whether it
                                  \* is open and the frames written in each direction
    peers,                        \* p2p: var peers []*websocket.Conn
    sockets                       \* the connections behind the elements of peers and
                                  \* the goroutines started for each

ledgerVars == <<blockchain, unspentTxOuts, txPool, cumulativeBlocksDifficulty>>
vars == <<blockchain, unspentTxOuts, txPool, cumulativeBlocksDifficulty,
          Lock, worker, now, last, peer, net, peers, sockets>>

\* the wallet of the node and the wallet of a remote peer
MyAddress == "A"
PeerAddress == "B"

Workers == {"w1", "w2"}
NoWorker == "none"
Idle == [pc |-> "idle"]

\* the second at which the model starts, and the largest clock value
Now0 == 1000
TickStep == 60
MaxTicks == 1

CurrentLedger ==
    Ledger(blockchain, unspentTxOuts, txPool, cumulativeBlocksDifficulty)

SetLedger(st) ==
    /\ blockchain' = st.blockchain
    /\ unspentTxOuts' = st.unspentTxOuts
    /\ txPool' = st.txPool
    /\ cumulativeBlocksDifficulty' = st.cumulativeBlocksDifficulty

Ran(op, blocks, branch, err, out) ==
    [op |-> op, blocks |-> blocks, branch |-> branch, err |-> err, out |-> out,
     n |-> 1 - last.n]

\* the websocket of SpecNet before the two nodes connect
NoNet == [connected |-> FALSE, toPeer |-> <<>>, toLocal |-> <<>>]

\* the connections a node can hold
Sockets == {"s1", "s2"}

\* a connection that was never made: no goroutine runs for it.  reader, hello
\* and getPool are the positions of the goroutines of lines 350, 357 and
\* 359-361 (323, 330 and 332-334); writeFails says that WriteMessage returns
\* an error from now on, ioError that a read or a write on the connection
\* has returned an error.
NoSocket ==
    [state |-> "none", reader |-> "none", hello |-> "none", getPool |-> "none",
     writeFails |-> FALSE, ioError |-> FALSE]

InitNode ==
    /\ blockchain = InitialLedger.blockchain
    /\ unspentTxOuts = InitialLedger.unspentTxOuts
    /\ txPool = InitialLedger.txPool
    /\ cumulativeBlocksDifficulty = InitialLedger.cumulativeBlocksDifficulty
    /\ peer = InitialLedger
    /\ net = NoNet
    /\ peers = <<>>
    /\ sockets = [s \in Sockets |-> NoSocket]
    /\ Lock = NoWorker
    /\ worker = [w \in Workers |-> Idle]
    /\ now = Now0
    /\ last = [op |-> "init", blocks |-> <<>>, branch |-> "", err |-> FALSE,
               out |-> <<>>, n |-> 0]

Tick ==
    /\ now + TickStep <= Now0 + MaxTicks * TickStep
    /\ now' = now + TickStep
    /\ UNCHANGED <<ledgerVars, Lock, worker, last, peer, net, peers, sockets>>

(***************************************************************************)
(* SpecFork: one node, each operation run to completion, on chains long     *)
(* enough for the difficulty to be retargeted.  The node mines, and peers   *)
(* offer the chains a remote miner built with the same code: its whole      *)
(* chain or the tip alone.                                                  *)
(***************************************************************************)
MaxHeight == 12        \* the node mines up to this block index
MinPeerHeight == 11    \* a remote chain reaches at least this block index
MaxPeerHeight == 13    \* and at most this one
RemoteT0 == 900        \* the second at which the remote miner started
Gaps == {0, 6}         \* seconds between two blocks of a remote chain

RECURSIVE RemoteChain(_, _)
RemoteChain(k, gap) ==
    IF k = 0 THEN <<GenesisBlock>>
    ELSE LET c == RemoteChain(k - 1, gap)
         IN Append(c, MineOn(c, <<GetCoinbaseTransaction(PeerAddress, k)>>,
                             RemoteT0 + gap * (k - 1)))

ForkPayloads ==
    UNION {{RemoteChain(k, g), <<Last(RemoteChain(k, g))>>} :
              k \in MinPeerHeight..MaxPeerHeight, g \in Gaps}

MineBlockBelow(maxHeight) ==
    /\ GetLatestBlock(blockchain).Fields.Index < maxHeight
    /\ LET r == ProduceNextBlock(CurrentLedger, now, MyAddress)
       IN /\ SetLedger(r.st)
          /\ last' = Ran("mine", <<>>, "", r.err, r.out)
    /\ UNCHANGED <<Lock, worker, now, peer, net, peers, sockets>>

MineBlock == MineBlockBelow(MaxHeight)

ReceiveBlocks(blocks) ==
    /\ LET r == handleReceivedBlocks(CurrentLedger, blocks, now)
       IN /\ SetLedger(r.st)
          /\ last' = Ran("blocks", blocks, r.branch, r.err, r.out)
    /\ UNCHANGED <<Lock, worker, now, peer, net, peers, sockets>>

ReceiveFork == \E blocks \in ForkPayloads : ReceiveBlocks(blocks)

NextFork == MineBlock \/ ReceiveFork \/ Tick

SpecFork == InitNode /\ [][NextFork]_vars

(***************************************************************************)
(* Spec: one node, its goroutines interleaved.  A worker is a goroutine: an *)
(* HTTP handler running mineBlock or sendTx, or a peer's reader handling a  *)
(* BLOCKCHAIN or TX_POOL frame.  A step is one statement that reads or      *)
(* writes a package variable.  blockchain.Lock is taken where the source    *)
(* takes it, in handleReceivedBlocks, and nowhere else.                     *)
(***************************************************************************)
MaxChainLen == 3       \* Spec: mining and peer blocks start below this chain length
MaxRaceChainLen == 4   \* SpecChain: the same, without the mempool operations
MaxForkHeight == 2     \* block index reached by the remote fork
SendAmounts == {30}

At(w, pc) == worker[w].pc = pc

Goto(w, pc) == worker' = [worker EXCEPT ![w].pc = pc]

\* the worker's operation returns; blockchain.Lock.Unlock() where it is held
Finish(w) ==
    /\ worker' = [worker EXCEPT ![w] = Idle]
    /\ Lock' = IF Lock = w THEN NoWorker ELSE Lock

\* ProduceNextBlock up to the end of the proof of work (lines 195-180)
StartMineBelow(w, maxLen) ==
    /\ At(w, "idle")
    /\ Len(blockchain) < maxLen
    /\ LET coinbaseTx == GetCoinbaseTransaction(
               MyAddress, GetLatestBlock(blockchain).Fields.Index + 1)
       IN worker' = [worker EXCEPT ![w] =
              [pc |-> "add_validate", op |-> "mine",
               blk |-> MineOn(blockchain, <<coinbaseTx>> \o txPool, now)]]
    /\ UNCHANGED <<ledgerVars, Lock, now, peer, net, peers, sockets, last>>

StartMine(w) == StartMineBelow(w, MaxChainLen)

\* AddBlockToChain lines 328-329
AddValidate(w) ==
    /\ At(w, "add_validate")
    /\ LET blk == worker[w].blk
           r == ProcessTransactions(blk.Fields.Transactions, unspentTxOuts,
                                    blk.Fields.Index)
       IN IF /\ IsValidBlock(blockchain, GetLatestBlock(blockchain), blk, now)
             /\ ~r.err
          THEN /\ worker' = [worker EXCEPT ![w] =
                      [pc |-> "add_append", op |-> worker[w].op, blk |-> blk,
                       retVal |-> r.val]]
               /\ UNCHANGED Lock
          ELSE Finish(w)
    /\ UNCHANGED <<ledgerVars, now, peer, net, peers, sockets, last>>

\* line 334
AddAppend(w) ==
    /\ At(w, "add_append")
    /\ blockchain' = Append(blockchain, worker[w].blk)
    /\ Goto(w, "add_cum")
    /\ UNCHANGED <<unspentTxOuts, txPool, cumulativeBlocksDifficulty, Lock, now, peer, net, peers, sockets, last>>

\* line 336
AddCum(w) ==
    /\ At(w, "add_cum")
    /\ cumulativeBlocksDifficulty' =
           cumulativeBlocksDifficulty + 2^(worker[w].blk.Fields.Difficulty)
    /\ Goto(w, "add_utxo")
    /\ UNCHANGED <<blockchain, unspentTxOuts, txPool, Lock, now, peer, net, peers, sockets, last>>

\* line 337
AddSetUnspent(w) ==
    /\ At(w, "add_utxo")
    /\ unspentTxOuts' = worker[w].retVal
    /\ Goto(w, "add_pool")
    /\ UNCHANGED <<blockchain, txPool, cumulativeBlocksDifficulty, Lock, now, peer, net, peers, sockets, last>>

\* line 338
AddUpdatePool(w) ==
    /\ At(w, "add_pool")
    /\ txPool' = UpdateTransactionPool(txPool, unspentTxOuts)
    /\ Goto(w, "add_bcast")
    /\ UNCHANGED <<blockchain, unspentTxOuts, cumulativeBlocksDifficulty, Lock, now, peer, net, peers, sockets, last>>

\* the broadcast of the new tip (line 182, p2p lines 146-149) and the return
AddBroadcast(w) ==
    /\ At(w, "add_bcast")
    /\ Finish(w)
    /\ UNCHANGED <<ledgerVars, now, peer, net, peers, sockets, last>>

\* the remote miner's fork of MaxForkHeight blocks on genesis, a tip of that
\* fork alone, and a remote block mined on the tip this node holds
BlockPayloads ==
    {RemoteChain(MaxForkHeight, 0)}
      \cup {<<Last(RemoteChain(k, 0))>> : k \in 1..MaxForkHeight}
      \cup {<<MineOn(blockchain,
                     <<GetCoinbaseTransaction(
                          PeerAddress, GetLatestBlock(blockchain).Fields.Index + 1)>>,
                     now)>>}

\* handleMessage, case blockchainMsg: a reader goroutine got a BLOCKCHAIN frame
StartBlocksBelow(w, maxLen) ==
    /\ At(w, "idle")
    /\ Len(blockchain) < maxLen
    /\ \E blocks \in BlockPayloads :
          worker' = [worker EXCEPT ![w] =
              [pc |-> "recv_tip", op |-> "blocks", blocks |-> blocks]]
    /\ UNCHANGED <<ledgerVars, Lock, now, peer, net, peers, sockets, last>>

StartBlocks(w) == StartBlocksBelow(w, MaxChainLen)

\* handleReceivedBlocks lines 138-143, 150-153: the tip is read under the lock,
\* the lock is released, and the branch is chosen from the tip that was read
RecvReadTip(w) ==
    /\ At(w, "recv_tip")
    /\ Lock = NoWorker
    /\ LET blocks == worker[w].blocks
           branch == BlocksBranch(blocks, GetLatestBlock(blockchain))
       IN CASE branch = "append" ->
                 worker' = [worker EXCEPT ![w] =
                     [pc |-> "recv_lock", op |-> "blocks", blocks |-> blocks,
                      blk |-> Last(blocks), then |-> "add_validate"]]
            [] branch = "replace" ->
                 worker' = [worker EXCEPT ![w] =
                     [pc |-> "recv_lock", op |-> "blocks", blocks |-> blocks,
                      then |-> "rep_validate"]]
            [] OTHER -> worker' = [worker EXCEPT ![w] = Idle]
    /\ UNCHANGED <<ledgerVars, Lock, now, peer, net, peers, sockets, last>>

\* lines 144 and 154: blockchain.Lock.Lock()
RecvLock(w) ==
    /\ At(w, "recv_lock")
    /\ Lock = NoWorker
    /\ Lock' = w
    /\ Goto(w, worker[w].then)
    /\ UNCHANGED <<ledgerVars, now, peer, net, peers, sockets, last>>

\* ReplaceChain lines 348-352
RepValidate(w) ==
    /\ At(w, "rep_validate")
    /\ LET v == IsValidBlockChain(worker[w].blocks, now)
       IN IF v.err
          THEN Finish(w)
          ELSE /\ worker' = [worker EXCEPT ![w] =
                      [pc |-> "rep_init", op |-> "blocks",
                       blocks |-> worker[w].blocks, retVal |-> v.val]]
               /\ UNCHANGED Lock
    /\ UNCHANGED <<ledgerVars, now, peer, net, peers, sockets, last>>

\* lines 354-356
RepInitCum(w) ==
    /\ At(w, "rep_init")
    /\ cumulativeBlocksDifficulty' =
           IF cumulativeBlocksDifficulty = 0
           THEN GetCumulativeDifficulty(blockchain)
           ELSE cumulativeBlocksDifficulty
    /\ Goto(w, "rep_compare")
    /\ UNCHANGED <<blockchain, unspentTxOuts, txPool, Lock, now, peer, net, peers, sockets, last>>

\* lines 357-361
RepCompare(w) ==
    /\ At(w, "rep_compare")
    /\ LET newBlocksDifficulty == GetCumulativeDifficulty(worker[w].blocks)
       IN IF KeepsLocal(cumulativeBlocksDifficulty, newBlocksDifficulty)
          THEN Finish(w)
          ELSE /\ worker' = [worker EXCEPT ![w] =
                      [pc |-> "rep_chain", op |-> "blocks",
                       blocks |-> worker[w].blocks, retVal |-> worker[w].retVal,
                       newBlocksDifficulty |-> newBlocksDifficulty]]
               /\ UNCHANGED Lock
    /\ UNCHANGED <<ledgerVars, now, peer, net, peers, sockets, last>>

\* line 366
RepSetChain(w) ==
    /\ At(w, "rep_chain")
    /\ blockchain' = worker[w].blocks
    /\ Goto(w, "rep_cum")
    /\ UNCHANGED <<unspentTxOuts, txPool, cumulativeBlocksDifficulty, Lock, now, peer, net, peers, sockets, last>>

\* line 367
RepSetCum(w) ==
    /\ At(w, "rep_cum")
    /\ cumulativeBlocksDifficulty' = worker[w].newBlocksDifficulty
    /\ Goto(w, "rep_utxo")
    /\ UNCHANGED <<blockchain, unspentTxOuts, txPool, Lock, now, peer, net, peers, sockets, last>>

\* line 368
RepSetUnspent(w) ==
    /\ At(w, "rep_utxo")
    /\ unspentTxOuts' = worker[w].retVal
    /\ Goto(w, "rep_pool")
    /\ UNCHANGED <<blockchain, txPool, cumulativeBlocksDifficulty, Lock, now, peer, net, peers, sockets, last>>

\* line 369: the pool is filtered against the local unspentTxOuts_
RepUpdatePool(w) ==
    /\ At(w, "rep_pool")
    /\ txPool' = UpdateTransactionPool(txPool, worker[w].retVal)
    /\ Goto(w, "rep_bcast")
    /\ UNCHANGED <<blockchain, unspentTxOuts, cumulativeBlocksDifficulty, Lock, now, peer, net, peers, sockets, last>>

\* line 370 and the return; handleReceivedBlocks line 156 unlocks
RepBroadcast(w) ==
    /\ At(w, "rep_bcast")
    /\ Finish(w)
    /\ UNCHANGED <<ledgerVars, now, peer, net, peers, sockets, last>>

\* SendTransaction lines 225-229: the sendTx HTTP handler builds the transaction
StartSendTx(w) ==
    /\ At(w, "idle")
    /\ \E amount \in SendAmounts :
          worker' = [worker EXCEPT ![w] =
              [pc |-> "pool_check", op |-> "sendTx",
               txs |-> <<CreateTransaction(PeerAddress, amount, unspentTxOuts,
                                           txPool, MyAddress)>>]]
    /\ UNCHANGED <<ledgerVars, Lock, now, peer, net, peers, sockets, last>>

\* the transactions a peer's pool can hold: the peer's wallet paying this node
\* out of what the peer owns on the chain this node holds
TxPoolPayloads ==
    {<<CreateTransaction(MyAddress, amount, unspentTxOuts, <<>>, PeerAddress)>> :
        amount \in SendAmounts}

\* handleMessage, case txPoolMsg: a reader goroutine got a TX_POOL frame
StartTxPool(w) ==
    /\ At(w, "idle")
    /\ GetBalance(PeerAddress, unspentTxOuts) > 0
    /\ \E txs \in TxPoolPayloads :
          worker' = [worker EXCEPT ![w] =
              [pc |-> "pool_check", op |-> "txPool", txs |-> txs]]
    /\ UNCHANGED <<ledgerVars, Lock, now, peer, net, peers, sockets, last>>

\* AddToTransactionPool lines 21-27 on the next transaction of the worker
PoolCheck(w) ==
    /\ At(w, "pool_check")
    /\ IF PoolAccepts(Head(worker[w].txs), unspentTxOuts, txPool)
       THEN Goto(w, "pool_append")
       ELSE IF Tail(worker[w].txs) = <<>>
            THEN worker' = [worker EXCEPT ![w] = Idle]
            ELSE worker' = [worker EXCEPT ![w].txs = Tail(@)]
    /\ UNCHANGED <<ledgerVars, Lock, now, peer, net, peers, sockets, last>>

\* AddToTransactionPool line 30
PoolAppend(w) ==
    /\ At(w, "pool_append")
    /\ txPool' = Append(txPool, Head(worker[w].txs))
    /\ Goto(w, "pool_bcast")
    /\ UNCHANGED <<blockchain, unspentTxOuts, cumulativeBlocksDifficulty, Lock, now, peer, net, peers, sockets, last>>

\* the broadcast of the pool (blockchain line 232, p2p line 213), then the next
\* transaction of the frame or the return
PoolBroadcast(w) ==
    /\ At(w, "pool_bcast")
    /\ IF Tail(worker[w].txs) = <<>>
       THEN worker' = [worker EXCEPT ![w] = Idle]
       ELSE worker' = [worker EXCEPT ![w] =
                [pc |-> "pool_check", op |-> worker[w].op, txs |-> Tail(worker[w].txs)]]
    /\ UNCHANGED <<ledgerVars, Lock, now, peer, net, peers, sockets, last>>

\* the statements of a worker that is appending or replacing
ChainStep(w) ==
    \/ AddValidate(w) \/ AddAppend(w) \/ AddCum(w)
    \/ AddSetUnspent(w) \/ AddUpdatePool(w) \/ AddBroadcast(w)
    \/ RecvReadTip(w) \/ RecvLock(w)
    \/ RepValidate(w) \/ RepInitCum(w) \/ RepCompare(w) \/ RepSetChain(w)
    \/ RepSetCum(w) \/ RepSetUnspent(w) \/ RepUpdatePool(w) \/ RepBroadcast(w)

Next ==
    \E w \in Workers :
       \/ StartMine(w) \/ StartBlocks(w) \/ ChainStep(w)
       \/ StartSendTx(w) \/ StartTxPool(w)
       \/ PoolCheck(w) \/ PoolAppend(w) \/ PoolBroadcast(w)

Spec == InitNode /\ [][Next]_vars

(***************************************************************************)
(* SpecChain: the miner and the BLOCKCHAIN handlers alone, on longer chains *)
(***************************************************************************)
StartMineRace(w) == StartMineBelow(w, MaxRaceChainLen)

StartBlocksRace(w) == StartBlocksBelow(w, MaxRaceChainLen)

NextChain ==
    \E w \in Workers : StartMineRace(w) \/ StartBlocksRace(w) \/ ChainStep(w)

SpecChain == InitNode /\ [][NextChain]_vars

(***************************************************************************)
(* SpecTx: one node, its operations run one at a time, fed by a peer that   *)
(* sends any transaction and any block the validation code lets through.    *)
(***************************************************************************)
MaxTxHeight == 3              \* block index up to which blocks are produced
MaxPoolLen == 2               \* TX_POOL frames arrive while the pool is shorter
SplitAmounts == <<20, 10, 10, 10>>

\* a transaction without inputs whose outputs sum to zero
ZeroTx == Transaction(<<>>, <<TxOut(PeerAddress, 0)>>)

\* the peer spends the unspent output u it owns into Len(SplitAmounts) outputs
SplitTx(u) ==
    LET unsignedTxIns == <<toUnsignedTxIn(u)>>
        tx == Transaction(unsignedTxIns,
                          [n \in 1..Len(SplitAmounts) |->
                              TxOut(PeerAddress, SplitAmounts[n])])
    IN [tx EXCEPT !.TxIns =
           <<[unsignedTxIns[1] EXCEPT
                 !.Signature = SignTxIn(tx, unsignedTxIns[1], PeerAddress, unspentTxOuts)]>>]

\* what the peer's wallet builds, and what a peer can write by hand
PeerTransactions ==
    {ZeroTx, CreateTransaction(MyAddress, 30, unspentTxOuts, txPool, PeerAddress)}
      \cup (IF FindUnspentTxOuts(PeerAddress, unspentTxOuts) = <<>> THEN {}
            ELSE {SplitTx(FindUnspentTxOuts(PeerAddress, unspentTxOuts)[1])})

\* a coinbase for blockIndex whose input names the transaction txOutId
CoinbaseNaming(txOutId, address, blockIndex) ==
    Transaction(<<TxIn(txOutId, blockIndex, EmptyString)>>,
                <<TxOut(address, coinBaseAmount)>>)

\* the coinbases the peer can put in its block at blockIndex: the one
\* GetCoinbaseTransaction builds, and one naming an unspent output whose
\* TxOutIndex is blockIndex
PeerCoinbases(blockIndex) ==
    {GetCoinbaseTransaction(PeerAddress, blockIndex)}
      \cup {CoinbaseNaming(unspentTxOuts[n].TxOutId, PeerAddress, blockIndex) :
               n \in {m \in 1..Len(unspentTxOuts) :
                         unspentTxOuts[m].TxOutIndex = blockIndex}}

\* sendTx run to its end (wallet lines 266-284)
SendTx ==
    /\ LET r == SendTransaction(CurrentLedger, PeerAddress, 30, MyAddress)
       IN /\ SetLedger(r.st)
          /\ last' = Ran("sendTx", <<>>, "", r.err, r.out)
    /\ UNCHANGED <<Lock, worker, now, peer, net, peers, sockets>>

\* a TX_POOL frame of one transaction handled to its end
ReceiveTransaction ==
    /\ Len(txPool) < MaxPoolLen
    /\ \E tx \in PeerTransactions :
          LET r == handleTxPool(CurrentLedger, <<tx>>)
          IN /\ SetLedger(r.st)
             /\ last' = Ran("txPool", <<>>, "", r.out = <<>>, r.out)
    /\ UNCHANGED <<Lock, worker, now, peer, net, peers, sockets>>

\* the peer mines on the tip this node holds, with the pool it shares with
\* this node, and the BLOCKCHAIN frame of that block is handled to its end
ReceivePeerBlock ==
    /\ GetLatestBlock(blockchain).Fields.Index < MaxTxHeight
    /\ \E coinbaseTx \in PeerCoinbases(GetLatestBlock(blockchain).Fields.Index + 1) :
          ReceiveBlocks(<<MineOn(blockchain, <<coinbaseTx>> \o txPool, now)>>)

MineTxBlock == MineBlockBelow(MaxTxHeight)

NextTx == MineTxBlock \/ SendTx \/ ReceiveTransaction \/ ReceivePeerBlock

SpecTx == InitNode /\ [][NextTx]_vars

(***************************************************************************)
(* SpecNet: two nodes that have mined apart, one quickly and one slowly,    *)
(* then connect.  Each frame is handled to its end by the node it reaches;  *)
(* a websocket delivers frames in the order they were written.              *)
(***************************************************************************)
LocalNetHeights == {11, 12}   \* block index this node mined up to before connecting
PeerNetHeights == {12, 13}    \* and the one the second node mined up to
PeerGap == 6                  \* seconds between the second node's blocks
MaxLocalNetHeight == 13       \* once connected this node mines below this index
MaxPeerNetHeight == 14        \* and the second node below this one

\* the package variables of a node that mined h blocks, one every gap seconds
RECURSIVE MinedLedger(_, _, _)
MinedLedger(address, h, gap) ==
    IF h = 0 THEN InitialLedger
    ELSE CHOOSE st \in {ProduceNextBlock(prev, RemoteT0 + gap * (h - 1), address).st :
                           prev \in {MinedLedger(address, h - 1, gap)}} : TRUE

\* handleMessage with broadcast in place of send(ws, ...) at lines 172, 181
\* and 200: the answer to a request goes to every peer
handleMessageAnsweringAll(st, frame, now_) ==
    CASE frame.Code = "GET_LATEST_BLOCK" ->
           [st |-> st, reply |-> <<>>,
            bcast |-> <<Frame("BLOCKCHAIN", <<GetLatestBlock(st.blockchain)>>)>>]
      [] frame.Code = "GET_ALL_BLOCKS" ->
           [st |-> st, reply |-> <<>>,
            bcast |-> <<Frame("BLOCKCHAIN", st.blockchain)>>]
      [] frame.Code = "BLOCKCHAIN" ->
           LET r == handleReceivedBlocks(st, frame.Data, now_)
           IN [st |-> r.st, bcast |-> r.out, reply |-> <<>>]
      [] frame.Code = "GET_TX_POOL" ->
           [st |-> st, reply |-> <<>>,
            bcast |-> <<Frame("TX_POOL", st.txPool)>>]
      [] frame.Code = "TX_POOL" ->
           LET r == handleTxPool(st, frame.Data)
           IN [st |-> r.st, bcast |-> r.out, reply |-> <<>>]
      [] OTHER -> [st |-> st, bcast |-> <<>>, reply |-> <<>>]

\* handleMessage: what a frame does to the node that reads it, the frames it
\* answers to the sender and the frames it broadcasts
handleMessage(st, frame, now_) ==
    CASE frame.Code = "GET_LATEST_BLOCK" ->
           [st |-> st, bcast |-> <<>>,
            reply |-> <<Frame("BLOCKCHAIN", <<GetLatestBlock(st.blockchain)>>)>>]
      [] frame.Code = "GET_ALL_BLOCKS" ->
           [st |-> st, bcast |-> <<>>,
            reply |-> <<Frame("BLOCKCHAIN", st.blockchain)>>]
      [] frame.Code = "BLOCKCHAIN" ->
           LET r == handleReceivedBlocks(st, frame.Data, now_)
           IN [st |-> r.st, bcast |-> r.out, reply |-> <<>>]
      [] frame.Code = "GET_TX_POOL" ->
           [st |-> st, bcast |-> <<>>,
            reply |-> <<Frame("TX_POOL", st.txPool)>>]
      [] frame.Code = "TX_POOL" ->
           LET r == handleTxPool(st, frame.Data)
           IN [st |-> r.st, bcast |-> r.out, reply |-> <<>>]
      [] OTHER -> [st |-> st, bcast |-> <<>>, reply |-> <<>>]

\* AddPeer and P2pEndpoint: each side sends GET_LATEST_BLOCK, then GET_TX_POOL
Handshake == <<Frame("GET_LATEST_BLOCK", <<>>), Frame("GET_TX_POOL", <<>>)>>

\* broadcast: the frames reach the peers connected at this moment
Sent(queue, frames) == IF net.connected THEN queue \o frames ELSE queue

InitNet ==
    /\ \E h \in LocalNetHeights, k \in PeerNetHeights :
          LET st == MinedLedger(MyAddress, h, 0)
          IN /\ blockchain = st.blockchain
             /\ unspentTxOuts = st.unspentTxOuts
             /\ txPool = st.txPool
             /\ cumulativeBlocksDifficulty = st.cumulativeBlocksDifficulty
             /\ peer = MinedLedger(PeerAddress, k, PeerGap)
    /\ net = NoNet
    /\ peers = <<>>
    /\ sockets = [s \in Sockets |-> NoSocket]
    /\ Lock = NoWorker
    /\ worker = [w \in Workers |-> Idle]
    /\ now = Now0
    /\ last = [op |-> "init", blocks |-> <<>>, branch |-> "", err |-> FALSE,
               out |-> <<>>, n |-> 0]

AddPeer ==
    /\ ~net.connected
    /\ net' = [connected |-> TRUE, toPeer |-> Handshake, toLocal |-> Handshake]
    /\ UNCHANGED <<ledgerVars, peer, Lock, worker, now, last, peers, sockets>>

NetMineBlock ==
    /\ GetLatestBlock(blockchain).Fields.Index < MaxLocalNetHeight
    /\ \E r \in {ProduceNextBlock(CurrentLedger, now, MyAddress)} :
          /\ SetLedger(r.st)
          /\ net' = [net EXCEPT !.toPeer = Sent(@, r.out)]
    /\ UNCHANGED <<peer, Lock, worker, now, last, peers, sockets>>

NetPeerMineBlock ==
    /\ GetLatestBlock(peer.blockchain).Fields.Index < MaxPeerNetHeight
    /\ \E r \in {ProduceNextBlock(peer, now, PeerAddress)} :
          /\ peer' = r.st
          /\ net' = [net EXCEPT !.toLocal = Sent(@, r.out)]
    /\ UNCHANGED <<ledgerVars, Lock, worker, now, last, peers, sockets>>

\* reader on this node: the next frame from the second node is handled
DeliverToLocal ==
    /\ net.toLocal # <<>>
    /\ \E r \in {handleMessage(CurrentLedger, Head(net.toLocal), now)} :
          /\ SetLedger(r.st)
          /\ net' = [net EXCEPT !.toLocal = Tail(@),
                                !.toPeer = @ \o r.reply \o r.bcast]
    /\ UNCHANGED <<peer, Lock, worker, now, last, peers, sockets>>

\* reader on the second node
DeliverToPeer ==
    /\ net.toPeer # <<>>
    /\ \E r \in {handleMessage(peer, Head(net.toPeer), now)} :
          /\ peer' = r.st
          /\ net' = [net EXCEPT !.toPeer = Tail(@),
                                !.toLocal = @ \o r.reply \o r.bcast]
    /\ UNCHANGED <<ledgerVars, Lock, worker, now, last, peers, sockets>>

NextNet ==
    AddPeer \/ NetMineBlock \/ NetPeerMineBlock \/ DeliverToLocal \/ DeliverToPeer

\* the nodes connect and every frame written is read and handled; mining may
\* stop at any moment
SpecNet ==
    InitNet /\ [][NextNet]_vars
      /\ WF_vars(AddPeer) /\ WF_vars(DeliverToLocal) /\ WF_vars(DeliverToPeer)

(***************************************************************************)
(* SpecP2p: one node and the peers connected to it.  Each handler runs to   *)
(* its end; last.out lists the frames it wrote, connection by connection.   *)
(***************************************************************************)
MaxP2pHeight == 2             \* the node mines and reads frames below this block index
MaxP2pPoolLen == 1            \* sendTx runs while the pool is shorter than this

\* send: one call of WriteMessage, the frame and the connection it goes to
send(ws, frame) == [to |-> ws, frame |-> frame]

\* broadcast: the frame is written to every element of peers_, in order
broadcast(peers_, frame) == [n \in 1..Len(peers_) |-> send(peers_[n], frame)]

\* the calls of WriteMessage a handler makes: its answers go to the
\* connection the frame came from, its broadcasts to every peer
Writes(ws, peers_, reply, bcast) ==
    [n \in 1..Len(reply) |-> send(ws, reply[n])]
      \o Flatten([n \in 1..Len(bcast) |-> broadcast(peers_, bcast[n])])

\* what ran last: the operation, the connection and frame it served, and the
\* frames it wrote
Served(op, ws, frame, out) ==
    [op |-> op, from |-> ws, frame |-> frame, out |-> out, n |-> 1 - last.n]

\* a connection whose handshake is over
Established ==
    [NoSocket EXCEPT !.state = "open", !.reader = "reading",
                     !.hello = "done", !.getPool = "done"]

\* AddPeer or P2pEndpoint run to its end: the connection joins peers,
\* GET_LATEST_BLOCK is written to it and GET_TX_POOL to every peer
Connect(ws) ==
    /\ sockets[ws].state = "none"
    /\ peers' = Append(peers, ws)
    /\ sockets' = [sockets EXCEPT ![ws] = Established]
    /\ last' = Served("connect", ws, Frame("", <<>>),
                      <<send(ws, Frame("GET_LATEST_BLOCK", <<>>))>>
                        \o broadcast(Append(peers, ws), Frame("GET_TX_POOL", <<>>)))
    /\ UNCHANGED <<ledgerVars, Lock, worker, now, peer, net>>

\* the block a peer mines on the tip this node holds
NextPeerBlock ==
    MineOn(blockchain,
           <<GetCoinbaseTransaction(PeerAddress,
                                    GetLatestBlock(blockchain).Fields.Index + 1)>>,
           now)

\* a block with one field of its header changed and its hash left as it was
HeaderMutations(block) ==
    {[block EXCEPT !.Fields.Index = @ + 1],
     [block EXCEPT !.Fields.PrevHash = <<"00">>],
     [block EXCEPT !.Fields.Ts = @ + 1],
     [block EXCEPT !.Fields.Difficulty = @ + 1],
     [block EXCEPT !.Fields.Nonce = @ + 1]}

\* a chain with its last block replaced
WithTip(chain, block) == [chain EXCEPT ![Len(chain)] = block]

\* the BLOCKCHAIN payloads peers send: nothing, the remote miner's chain or a
\* tip of it, the next block on this node's tip alone or after the tip it
\* extends, and that block and that chain with a header field of the last
\* block changed
P2pBlockPayloads ==
    LET sound == {RemoteChain(k, 0) : k \in 1..MaxForkHeight}
                   \cup {<<Last(RemoteChain(k, 0))>> : k \in 1..MaxForkHeight}
                   \cup {<<NextPeerBlock>>, <<GetLatestBlock(blockchain), NextPeerBlock>>}
    IN {<<>>} \cup sound
         \cup UNION {{WithTip(c, m) : m \in HeaderMutations(Last(c))} :
                         c \in {<<NextPeerBlock>>, RemoteChain(MaxForkHeight, 0)}}

\* the TX_POOL payloads peers send: nothing, the transaction the peer's wallet
\* builds (valid once the peer owns an output), twice, and after a
\* transaction without inputs that creates 30 coins
P2pTxPayloads ==
    LET tx == CreateTransaction(MyAddress, 30, unspentTxOuts, <<>>, PeerAddress)
        forged == Transaction(<<>>, <<TxOut(PeerAddress, 30)>>)
    IN {<<>>, <<tx>>, <<tx, tx>>, <<forged, tx>>}

P2pFrames ==
    {Frame(code, <<>>) : code \in {"GET_LATEST_BLOCK", "GET_ALL_BLOCKS", "GET_TX_POOL"}}
      \cup {Frame("BLOCKCHAIN", blocks) : blocks \in P2pBlockPayloads}
      \cup {Frame("TX_POOL", txs) : txs \in P2pTxPayloads}

\* reader and handleMessage: a frame read from a peer is handled to its end
ReadFrame ==
    /\ GetLatestBlock(blockchain).Fields.Index < MaxP2pHeight
    /\ \E n \in 1..Len(peers), frame \in P2pFrames :
          \E r \in {handleMessage(CurrentLedger, frame, now)} :
             /\ SetLedger(r.st)
             /\ last' = Served("frame", peers[n], frame,
                               Writes(peers[n], peers, r.reply, r.bcast))
    /\ UNCHANGED <<Lock, worker, now, peer, net, peers, sockets>>

\* mineBlock run to its end
P2pMineBlock ==
    /\ GetLatestBlock(blockchain).Fields.Index < MaxP2pHeight
    /\ \E r \in {ProduceNextBlock(CurrentLedger, now, MyAddress)} :
          /\ SetLedger(r.st)
          /\ last' = Served("mine", "", Frame("", <<>>),
                            Writes("", peers, <<>>, r.out))
    /\ UNCHANGED <<Lock, worker, now, peer, net, peers, sockets>>

\* sendTx run to its end
P2pSendTx ==
    /\ Len(txPool) < MaxP2pPoolLen
    /\ \E r \in {SendTransaction(CurrentLedger, PeerAddress, 30, MyAddress)} :
          /\ SetLedger(r.st)
          /\ last' = Served("sendTx", "", Frame("", <<>>),
                            Writes("", peers, <<>>, r.out))
    /\ UNCHANGED <<Lock, worker, now, peer, net, peers, sockets>>

NextP2p ==
    (\E ws \in Sockets : Connect(ws)) \/ ReadFrame \/ P2pMineBlock \/ P2pSendTx

SpecP2p == InitNode /\ [][NextP2p]_vars

(***************************************************************************)
(* SpecCast: the goroutines of Spec on a node with two peers connected,     *)
(* with the frames each broadcast writes.  last.item is the block the       *)
(* goroutine appended or the transaction it admitted before it broadcast.   *)
(***************************************************************************)
Cast(op, item, out) ==
    [op |-> op, item |-> item, out |-> out, n |-> 1 - last.n]

InitCast ==
    /\ blockchain = InitialLedger.blockchain
    /\ unspentTxOuts = InitialLedger.unspentTxOuts
    /\ txPool = InitialLedger.txPool
    /\ cumulativeBlocksDifficulty = InitialLedger.cumulativeBlocksDifficulty
    /\ peer = InitialLedger
    /\ net = NoNet
    /\ peers = <<"s1", "s2">>
    /\ sockets = [s \in Sockets |-> Established]
    /\ Lock = NoWorker
    /\ worker = [w \in Workers |-> Idle]
    /\ now = Now0
    /\ last = [op |-> "init", item |-> <<>>, out |-> <<>>, n |-> 0]

\* BroadcastLatest after the miner's append (part_000 line 182) and the
\* broadcast of p2p lines 146-147 after the reader's: the tip is read and
\* written to every peer; then the return
CastTip(w) ==
    /\ At(w, "add_bcast")
    /\ last' = Cast(worker[w].op, worker[w].blk,
                    broadcast(peers, BroadcastLatest(CurrentLedger)))
    /\ Finish(w)
    /\ UNCHANGED <<ledgerVars, now, peer, net, peers, sockets>>

\* ReplaceChain line 370 and the return
CastReplaced(w) ==
    /\ At(w, "rep_bcast")
    /\ last' = Cast("replace", <<>>,
                    broadcast(peers, BroadcastLatest(CurrentLedger)))
    /\ Finish(w)
    /\ UNCHANGED <<ledgerVars, now, peer, net, peers, sockets>>

\* BroadcastTransactionPool after an admission (part_000 line 232, p2p line
\* 213): the pool is read and written to every peer; then the next
\* transaction of the frame or the return
CastPool(w) ==
    /\ At(w, "pool_bcast")
    /\ last' = Cast(worker[w].op, Head(worker[w].txs),
                    broadcast(peers, BroadcastTransactionPool(CurrentLedger)))
    /\ IF Tail(worker[w].txs) = <<>>
       THEN worker' = [worker EXCEPT ![w] = Idle]
       ELSE worker' = [worker EXCEPT ![w] =
                [pc |-> "pool_check", op |-> worker[w].op, txs |-> Tail(worker[w].txs)]]
    /\ UNCHANGED <<ledgerVars, Lock, now, peer, net, peers, sockets>>

NextCast ==
    \E w \in Workers :
       \/ StartMine(w) \/ StartBlocks(w) \/ StartSendTx(w) \/ StartTxPool(w)
       \/ AddValidate(w) \/ AddAppend(w) \/ AddCum(w)
       \/ AddSetUnspent(w) \/ AddUpdatePool(w) \/ CastTip(w)
       \/ RecvReadTip(w) \/ RecvLock(w)
       \/ RepValidate(w) \/ RepInitCum(w) \/ RepCompare(w) \/ RepSetChain(w)
       \/ RepSetCum(w) \/ RepSetUnspent(w) \/ RepUpdatePool(w) \/ CastReplaced(w)
       \/ PoolCheck(w) \/ PoolAppend(w) \/ CastPool(w)

SpecCast == InitCast /\ [][NextCast]_vars

(***************************************************************************)
(* SpecConn: connections being made and lost.  A step is what one goroutine *)
(* does between two points where another can run: AddPeer and P2pEndpoint   *)
(* up to go send(...), the goroutine of go send(...), the broadcast started *)
(* after time.Sleep, a reader answering a request, a reader whose           *)
(* ReadMessage failed, and its eviction of the connection.  Writes are      *)
(* serialised by peerSendLock and a broadcast holds peerSocketListLock, so  *)
(* each is one step.  WriteMessage fails on a closed connection and on one  *)
(* whose write side broke, and keeps failing from then on.                  *)
(***************************************************************************)
\* WriteMessage on ws returns nil
Writable(ws) == sockets[ws].state = "open" /\ ~sockets[ws].writeFails

\* the frames that reached the wire out of the calls of send in attempts
Written(attempts) == SelectSeq(attempts, LAMBDA a : Writable(a.to))

\* the connections after those calls: send has seen (and logged) an error on
\* each connection its WriteMessage failed on (lines 109-113)
AfterWrites(socks, attempts) ==
    [ws \in Sockets |->
        IF \E n \in 1..Len(attempts) : attempts[n].to = ws /\ ~Writable(ws)
        THEN [socks[ws] EXCEPT !.ioError = TRUE]
        ELSE socks[ws]]

\* AddPeer lines 339-357 and P2pEndpoint lines 311-330: the connection is
\* appended to peers, then go reader(ws) and go send(ws, GET_LATEST_BLOCK);
\* the caller goes to sleep
Dial(ws) ==
    /\ sockets[ws].state = "none"
    /\ peers' = Append(peers, ws)
    /\ sockets' = [sockets EXCEPT ![ws] =
           [NoSocket EXCEPT !.state = "open", !.reader = "reading",
                            !.hello = "pending", !.getPool = "sleep"]]
    /\ UNCHANGED <<ledgerVars, Lock, worker, now, peer, net, last>>

\* the goroutine of line 357 (330) runs send
SendHello(ws) ==
    /\ sockets[ws].hello = "pending"
    /\ \E attempts \in {<<send(ws, Frame("GET_LATEST_BLOCK", <<>>))>>} :
          /\ last' = Served("hello", ws, Frame("", <<>>), Written(attempts))
          /\ sockets' = [AfterWrites(sockets, attempts) EXCEPT ![ws].hello = "done"]
    /\ UNCHANGED <<ledgerVars, Lock, worker, now, peer, net, peers>>

\* lines 359-361 (332-334): time.Sleep returns and the goroutine of
\* go broadcast(nil, getTxPoolMsg) writes to every element of peers
BroadcastGetTxPool(ws) ==
    /\ sockets[ws].getPool = "sleep"
    /\ \E attempts \in {broadcast(peers, Frame("GET_TX_POOL", <<>>))} :
          /\ last' = Served("getPool", ws, Frame("", <<>>), Written(attempts))
          /\ sockets' = [AfterWrites(sockets, attempts) EXCEPT ![ws].getPool = "done"]
    /\ UNCHANGED <<ledgerVars, Lock, worker, now, peer, net, peers>>

\* reader lines 256-286 on a request of the peer: handleMessage answers it
Answer(ws) ==
    /\ sockets[ws].reader = "reading"
    /\ sockets[ws].state = "open"
    /\ \E frame \in {Frame("GET_LATEST_BLOCK", <<>>)} :
          \E r \in {handleMessage(CurrentLedger, frame, now)} :
             \E attempts \in {Writes(ws, peers, r.reply, r.bcast)} :
                /\ SetLedger(r.st)
                /\ last' = Served("frame", ws, frame, Written(attempts))
                /\ sockets' = AfterWrites(sockets, attempts)
    /\ UNCHANGED <<Lock, worker, now, peer, net, peers>>

\* reader lines 256-259: ReadMessage returns an error
ReadError(ws) ==
    /\ sockets[ws].reader = "reading"
    /\ sockets' = [sockets EXCEPT ![ws].reader = "failed", ![ws].ioError = TRUE]
    /\ UNCHANGED <<ledgerVars, Lock, worker, now, peer, net, peers, last>>

\* removePeerAtIndex on the index of the first element equal to ws
WithoutPeer(peers_, ws) == SelectSeq(peers_, LAMBDA s : s # ws)

\* reader lines 260-269: under peerSocketListLock the connection is closed
\* and removed from peers, and the goroutine ends
Evict(ws) ==
    /\ sockets[ws].reader = "failed"
    /\ peers' = WithoutPeer(peers, ws)
    /\ sockets' = [sockets EXCEPT ![ws].reader = "done", ![ws].state = "closed"]
    /\ UNCHANGED <<ledgerVars, Lock, worker, now, peer, net, last>>

\* the network: the write side of a connection breaks while ReadMessage
\* stays blocked
WriteBreaks(ws) ==
    /\ sockets[ws].state = "open"
    /\ ~sockets[ws].writeFails
    /\ sockets' = [sockets EXCEPT ![ws].writeFails = TRUE]
    /\ UNCHANGED <<ledgerVars, Lock, worker, now, peer, net, peers, last>>

NextConn ==
    \E ws \in Sockets :
       \/ Dial(ws) \/ SendHello(ws) \/ BroadcastGetTxPool(ws) \/ Answer(ws)
       \/ ReadError(ws) \/ Evict(ws) \/ WriteBreaks(ws)

SpecConn == InitNode /\ [][NextConn]_vars

(***************************************************************************)
(* SpecTime: IsValidBlock on blocks that differ in their timestamp only.    *)
(* The node holds the genesis block and a block P a peer mined on it at a   *)
(* second of its choice (the timestamp rule does not apply to a block whose *)
(* predecessor is the genesis block), and validates blocks mined on P with  *)
(* timestamps at and around the two limits of the rule.                     *)
(***************************************************************************)
PrevTimes == {50, 100, 119, 120, 1000}
Clocks == {Now0, Now0 + TickStep}

\* the ledger after the peer's first block, mined at prevTs, was appended
LedgerOn(prevTs, now_) ==
    AddBlockToChain(InitialLedger,
                    MineOn(InitialLedger.blockchain,
                           <<GetCoinbaseTransaction(PeerAddress, 1)>>, prevTs),
                    now_).st

InitTime ==
    /\ now \in Clocks
    /\ \E prevTs \in PrevTimes :
          /\ blockchain = LedgerOn(prevTs, now).blockchain
          /\ unspentTxOuts = LedgerOn(prevTs, now).unspentTxOuts
          /\ txPool = LedgerOn(prevTs, now).txPool
          /\ cumulativeBlocksDifficulty = LedgerOn(prevTs, now).cumulativeBlocksDifficulty
    /\ peer = InitialLedger
    /\ net = NoNet
    /\ peers = <<>>
    /\ sockets = [s \in Sockets |-> NoSocket]
    /\ Lock = NoWorker
    /\ worker = [w \in Workers |-> Idle]
    /\ last = [op |-> "init", block |-> GenesisBlock, valid |-> FALSE, n |-> 0]

\* the timestamps tried on a predecessor of timestamp prevTs at second now_
BlockTimes(prevTs, now_) ==
    {ts \in {0, 59, 60, prevTs - 60, prevTs - 59, prevTs, now_, now_ + 59, now_ + 60} :
        ts >= 0}

\* IsValidBlock(blockchain, GetLatestBlock(blockchain), block) on a block that
\* is mined on the tip with timestamp ts
ValidateAt(ts) ==
    /\ \E block \in {MineOn(blockchain, <<GetCoinbaseTransaction(PeerAddress, 2)>>, ts)} :
          last' = [op |-> "valid", block |-> block,
                   valid |-> IsValidBlock(blockchain, GetLatestBlock(blockchain),
                                          block, now),
                   n |-> 1 - last.n]
    /\ UNCHANGED <<ledgerVars, Lock, worker, now, peer, net, peers, sockets>>

NextTime ==
    \E ts \in BlockTimes(GetLatestBlock(blockchain).Fields.Ts, now) : ValidateAt(ts)

SpecTime == InitTime /\ [][NextTime]_vars

(***************************************************************************)
(* SpecDifficulty: getDifficulty on every block of a chain the node mined.  *)
(* The blocks of an adjustment interval are mined within one second and the *)
(* block that ends it a chosen number of seconds later, or earlier by less  *)
(* than the 60 seconds the timestamp rule tolerates.                        *)
(***************************************************************************)
RetargetT0 == 100          \* the second at which the first block was mined
MaxRetargetHeight == 20    \* block index the chain reaches
Elapsed == {-10, 49, 50, 200, 201}

\* the second at which the block of index h is mined
PacedTime(h, e1, e2) ==
    IF h < difficultyAdjustmentInterval THEN RetargetT0
    ELSE IF h < 2 * difficultyAdjustmentInterval THEN RetargetT0 + e1
    ELSE RetargetT0 + e1 + e2

\* the package variables of a node that mined h blocks at those seconds
RECURSIVE PacedLedger(_, _, _)
PacedLedger(h, e1, e2) ==
    IF h = 0 THEN InitialLedger
    ELSE CHOOSE st \in {ProduceNextBlock(prev, PacedTime(h, e1, e2), MyAddress).st :
                           prev \in {PacedLedger(h - 1, e1, e2)}} : TRUE

InitDifficulty ==
    /\ \E e1 \in Elapsed, e2 \in Elapsed :
          \E st \in {PacedLedger(MaxRetargetHeight, e1, e2)} :
             /\ blockchain = st.blockchain
             /\ unspentTxOuts = st.unspentTxOuts
             /\ txPool = st.txPool
             /\ cumulativeBlocksDifficulty = st.cumulativeBlocksDifficulty
    /\ peer = InitialLedger
    /\ net = NoNet
    /\ peers = <<>>
    /\ sockets = [s \in Sockets |-> NoSocket]
    /\ Lock = NoWorker
    /\ worker = [w \in Workers |-> Idle]
    /\ now = Now0
    /\ last = [op |-> "init", block |-> GenesisBlock, difficulty |-> 0, n |-> 0]

\* getDifficulty(blockchain, latestBlock) as IsValidBlock calls it on the
\* predecessor of a block and produceBlock on the tip
AskDifficulty(i) ==
    /\ last' = [op |-> "difficulty", block |-> blockchain[i],
                difficulty |-> getDifficulty(blockchain, blockchain[i]),
                n |-> 1 - last.n]
    /\ UNCHANGED <<ledgerVars, Lock, worker, now, peer, net, peers, sockets>>

NextDifficulty == \E i \in 1..Len(blockchain) : AskDifficulty(i)

SpecDifficulty == InitDifficulty /\ [][NextDifficulty]_vars

(***************************************************************************)
(* SpecWallet: one node, its HTTP handlers mineBlock, sendTx and sendCoins  *)
(* run one at a time, and a peer that mines on the node's tip blocks the    *)
(* validation code lets through: at the node's second or at a second of its *)
(* choice, empty or holding transactions written by hand.                   *)
(***************************************************************************)
MaxWalletHeight == 3       \* block index up to which blocks are produced
MaxWalletPoolLen == 2      \* sendTx is asked while the pool is shorter
LowTs == 50                \* a timestamp below the 60 seconds of the rule
Overdraw == 30             \* what a hand-written transaction takes from its payee
WalletAmounts == {0, 30, 50, 80}
Payees == {PeerAddress, BadAddress}

\* what the handler was asked and what it answered
Asked(op, address, amount, err, out) ==
    [op |-> op, address |-> address, amount |-> amount, err |-> err, out |-> out,
     n |-> 1 - last.n]

WalletMineBlock ==
    /\ GetLatestBlock(blockchain).Fields.Index < MaxWalletHeight
    /\ \E r \in {ProduceNextBlock(CurrentLedger, now, MyAddress)} :
          /\ SetLedger(r.st)
          /\ last' = Asked("mineBlock", EmptyString, 0, r.err, r.out)
    /\ UNCHANGED <<Lock, worker, now, peer, net, peers, sockets>>

WalletSendTx ==
    /\ Len(txPool) < MaxWalletPoolLen
    /\ \E address \in Payees, amount \in WalletAmounts :
          \E r \in {SendTransaction(CurrentLedger, address, amount, MyAddress)} :
             /\ SetLedger(r.st)
             /\ last' = Asked("sendTx", address, amount, r.err, r.out)
    /\ UNCHANGED <<Lock, worker, now, peer, net, peers, sockets>>

WalletSendCoins ==
    /\ GetLatestBlock(blockchain).Fields.Index < MaxWalletHeight
    /\ \E address \in Payees, amount \in WalletAmounts :
          \E r \in {SendCoinsToAddress(CurrentLedger, address, amount, now, MyAddress)} :
             /\ SetLedger(r.st)
             /\ last' = Asked("sendCoins", address, amount, r.err, r.out)
    /\ UNCHANGED <<Lock, worker, now, peer, net, peers, sockets>>

\* a transaction without inputs that pays nothing to address
ZeroTxTo(address) == Transaction(<<>>, <<TxOut(address, 0)>>)

\* the peer spends the unspent output u it owns into more than u holds for
\* itself and the difference, below zero, for address
OverdrawTx(u, address) ==
    LET unsignedTxIns == <<toUnsignedTxIn(u)>>
        tx == Transaction(unsignedTxIns,
                          <<TxOut(PeerAddress, u.Amount + Overdraw),
                            TxOut(address, 0 - Overdraw)>>)
    IN [tx EXCEPT !.TxIns =
           <<[unsignedTxIns[1] EXCEPT
                 !.Signature = SignTxIn(tx, unsignedTxIns[1], PeerAddress, unspentTxOuts)]>>]

\* the transactions the peer puts after the coinbase of its block
PeerBlockTransactions ==
    {<<>>, <<ZeroTxTo(MyAddress), ZeroTxTo(MyAddress)>>}
      \cup (IF FindUnspentTxOuts(PeerAddress, unspentTxOuts) = <<>> THEN {}
            ELSE {<<OverdrawTx(FindUnspentTxOuts(PeerAddress, unspentTxOuts)[1],
                               MyAddress)>>})

\* the BLOCKCHAIN frame of a block the peer mined on this node's tip handled
\* to its end
WalletPeerBlock ==
    /\ GetLatestBlock(blockchain).Fields.Index < MaxWalletHeight
    /\ \E ts \in {now, LowTs}, txs \in PeerBlockTransactions :
          ReceiveBlocks(<<MineOn(blockchain,
                                 <<GetCoinbaseTransaction(
                                       PeerAddress,
                                       GetLatestBlock(blockchain).Fields.Index + 1)>>
                                   \o txs,
                                 ts)>>)

NextWallet == WalletMineBlock \/ WalletSendTx \/ WalletSendCoins \/ WalletPeerBlock

SpecWallet == InitNode /\ [][NextWallet]_vars

(***************************************************************************)
(* SpecValidate: ValidateTransaction and validateBlockTransactions as       *)
(* AddBlockToChain reaches them through ProcessTransactions, on the UTXO    *)
(* set of a chain the node holds and on transactions a peer is free to      *)
(* write: referenced or unreferenced outputs, signatures of the owner, of   *)
(* a stranger, over another id or none, outputs that balance or not.        *)
(***************************************************************************)
FanWidth == 13             \* outputs of the widest transaction of a block

\* a transaction without inputs whose FanWidth outputs of amount 0 pay address
ZeroFan(address) == Transaction(<<>>, [j \in 1..FanWidth |-> TxOut(address, 0)])

\* the ledgers the functions are asked on: the genesis chain, and block 1 on
\* it holding the coinbase alone, two equal transactions or a wide one
ValidateLedgers ==
    {InitialLedger}
      \cup {AddBlockToChain(InitialLedger,
                            MineOn(InitialLedger.blockchain,
                                   <<GetCoinbaseTransaction(address, 1)>> \o txs,
                                   Now0),
                            Now0).st :
               address \in {MyAddress},
               txs \in {<<>>, <<ZeroTxTo(MyAddress), ZeroTxTo(MyAddress)>>,
                        <<ZeroFan(PeerAddress)>>}}

\* an output no transaction made
MissingTxOut == UnspentTxOut(<<"none">>, 0, PeerAddress, 0)

\* the outputs a written transaction refers to: the oldest and the newest
\* entry of the UTXO set and one that is not in it
Referenced == {unspentTxOuts[1], unspentTxOuts[Len(unspentTxOuts)], MissingTxOut}

ReferencedLists ==
    {<<>>} \cup {<<u>> : u \in Referenced}
           \cup {<<u, v>> : u \in Referenced, v \in Referenced}

Signers == {"owner", "stranger", "stale", "nobody"}

\* the signature a writer of kind signer puts on the input that spends u
SignatureBy(signer, u, id) ==
    CASE signer = "owner"    -> GetSignature(id, u.Address)
      [] signer = "stranger" -> GetSignature(id, BadAddress)
      [] signer = "stale"    -> GetSignature(GenesisTransaction.Id, u.Address)
      [] signer = "nobody"   -> EmptyString

\* the outputs a writer gives a transaction whose inputs hold total
OutputLists(total) ==
    {<<>>, <<TxOut(PeerAddress, total)>>, <<TxOut(PeerAddress, total + 1)>>,
     <<TxOut(PeerAddress, 30), TxOut(MyAddress, total - 30)>>}

\* the transaction spending the outputs us into outs, signed by signer, under
\* its own id or under the id of the genesis transaction
WrittenTx(us, outs, signer, ownId) ==
    LET unsignedTxIns == [n \in 1..Len(us) |-> toUnsignedTxIn(us[n])]
        tx == Transaction(unsignedTxIns, outs)
        id == IF ownId THEN tx.Id ELSE GenesisTransaction.Id
    IN [Id |-> id,
        TxIns |-> [n \in 1..Len(us) |->
                      [unsignedTxIns[n] EXCEPT
                          !.Signature = SignatureBy(signer, us[n], id)]],
        TxOuts |-> outs]

WrittenTxsSpending(us) ==
    {WrittenTx(us, outs, signer, ownId) :
        outs \in OutputLists(SumSeq([n \in 1..Len(us) |-> us[n].Amount])),
        signer \in Signers, ownId \in BOOLEAN}

WrittenTxs == UNION {WrittenTxsSpending(us) : us \in ReferencedLists}

\* the index of the block AddBlockToChain would take on the chain
NextIndex == GetLatestBlock(blockchain).Fields.Index + 1

\* the first transaction of a written block: a coinbase whose input names the
\* empty id, the id of the newest output or that id and one more digit
WrittenCoinbases ==
    {Transaction(<<TxIn(id, idx, EmptyString)>>, <<TxOut(PeerAddress, amount)>>) :
        id \in {EmptyString,
                unspentTxOuts[Len(unspentTxOuts)].TxOutId,
                unspentTxOuts[Len(unspentTxOuts)].TxOutId \o <<1>>},
        idx \in {NextIndex, NextIndex + 1},
        amount \in {coinBaseAmount, coinBaseAmount + 1}}
      \cup {WrittenTx(<<>>, <<TxOut(PeerAddress, coinBaseAmount)>>, "nobody", TRUE),
            [GetCoinbaseTransaction(PeerAddress, NextIndex)
                EXCEPT !.Id = GenesisTransaction.Id],
            Transaction(<<TxIn(EmptyString, NextIndex, EmptyString)>>,
                        <<TxOut(PeerAddress, coinBaseAmount), TxOut(MyAddress, 0)>>)}

\* the transactions a written block holds after its first
WrittenSpends ==
    {WrittenTx(<<u>>, <<TxOut(PeerAddress, u.Amount)>>, "owner", TRUE) :
        u \in Referenced}
      \cup {ZeroTxTo(MyAddress),
            WrittenTx(<<unspentTxOuts[1]>>, <<TxOut(MyAddress, unspentTxOuts[1].Amount)>>,
                      "owner", TRUE)}

WrittenBlocks ==
    {<<>>} \cup {<<c>> : c \in WrittenCoinbases}
           \cup {<<c, t>> : c \in WrittenCoinbases, t \in WrittenSpends}
           \cup {<<c, t, u>> : c \in WrittenCoinbases,
                              t \in WrittenSpends, u \in WrittenSpends}
           \cup {<<t>> : t \in WrittenSpends}

\* a ledger and, in last, the transaction or the block written for it
InitValidate ==
    /\ \E st \in ValidateLedgers :
          /\ blockchain = st.blockchain
          /\ unspentTxOuts = st.unspentTxOuts
          /\ txPool = st.txPool
          /\ cumulativeBlocksDifficulty = st.cumulativeBlocksDifficulty
    /\ peer = InitialLedger
    /\ net = NoNet
    /\ peers = <<>>
    /\ sockets = [s \in Sockets |-> NoSocket]
    /\ Lock = NoWorker
    /\ worker = [w \in Workers |-> Idle]
    /\ now = Now0
    /\ last \in {[op |-> "transaction", transaction |-> transaction, n |-> 0] :
                    transaction \in WrittenTxs}
                \cup {[op |-> "transactions", transactions |-> transactions, n |-> 0] :
                         transactions \in WrittenBlocks}

\* ValidateTransaction(transaction, unspentTxOuts)
AskValidateTransaction ==
    /\ last.op = "transaction"
    /\ last' = [op |-> "validateTransaction", transaction |-> last.transaction,
                valid |-> ValidateTransaction(last.transaction, unspentTxOuts),
                n |-> 1 - last.n]
    /\ UNCHANGED <<ledgerVars, Lock, worker, now, peer, net, peers, sockets>>

\* validateBlockTransactions(transactions, unspentTxOuts, blockIndex)
AskValidateBlockTransactions ==
    /\ last.op = "transactions"
    /\ last' = [op |-> "validateBlockTransactions",
                transactions |-> last.transactions, blockIndex |-> NextIndex,
                valid |-> validateBlockTransactions(last.transactions, unspentTxOuts,
                                                    NextIndex),
                n |-> 1 - last.n]
    /\ UNCHANGED <<ledgerVars, Lock, worker, now, peer, net, peers, sockets>>

NextValidate == AskValidateTransaction \/ AskValidateBlockTransactions

SpecValidate == InitValidate /\ [][NextValidate]_vars

(***************************************************************************)
(* SpecProcess: AddBlockToChain on a block mined on the tip whose           *)
(* transactions a peer wrote: a coinbase followed by up to three spends in  *)
(* any order, so that every ordering of the same spends is one of the       *)
(* blocks offered.                                                          *)
(***************************************************************************)
OrderedBlocks ==
    {<<c>> : c \in WrittenCoinbases}
      \cup {<<c, t>> : c \in WrittenCoinbases, t \in WrittenSpends}
      \cup {<<c, t, u>> : c \in WrittenCoinbases,
                         t \in WrittenSpends, u \in WrittenSpends}
      \cup {<<c, t, u, v>> : c \in WrittenCoinbases, t \in WrittenSpends,
                            u \in WrittenSpends, v \in WrittenSpends}

\* a ledger and, in last, the transactions of the block written for it
InitProcess ==
    /\ \E st \in ValidateLedgers :
          /\ blockchain = st.blockchain
          /\ unspentTxOuts = st.unspentTxOuts
          /\ txPool = st.txPool
          /\ cumulativeBlocksDifficulty = st.cumulativeBlocksDifficulty
    /\ peer = InitialLedger
    /\ net = NoNet
    /\ peers = <<>>
    /\ sockets = [s \in Sockets |-> NoSocket]
    /\ Lock = NoWorker
    /\ worker = [w \in Workers |-> Idle]
    /\ now = Now0
    /\ last \in {[op |-> "block", transactions |-> transactions, n |-> 0] :
                    transactions \in OrderedBlocks}

\* AddBlockToChain(newBlock) on the block with last.transactions mined on the
\* tip: ProcessTransactions on a copy of the UTXO set, stored on success
ProcessBlock ==
    /\ last.op = "block"
    /\ \E r \in {AddBlockToChain(CurrentLedger,
                                 MineOn(blockchain, last.transactions, now), now)} :
          /\ SetLedger(r.st)
          /\ last' = [op |-> "processTransactions",
                      transactions |-> last.transactions, blockIndex |-> NextIndex,
                      err |-> ~r.ok, n |-> 1 - last.n]
    /\ UNCHANGED <<Lock, worker, now, peer, net, peers, sockets>>

NextProcess == ProcessBlock

SpecProcess == InitProcess /\ [][NextProcess]_vars

(***************************************************************************)
(* SpecLock: the mutexes of one node.  A worker is a goroutine: an HTTP     *)
(* handler mining a block, a reader handling a BLOCKCHAIN frame, a request  *)
(* frame or a read error, AddPeer or P2pEndpoint and the goroutines they    *)
(* start, or WsEndpoint.  A step is what a goroutine does between two calls *)
(* of Lock or Unlock; a call of Lock waits until the mutex is free.         *)
(* blockchain.Lock is the variable Lock; the mutexes of package p2p a       *)
(* goroutine holds are in worker[w].held.  Every call of WriteMessage       *)
(* returns.                                                                 *)
(***************************************************************************)
MaxLockChainLen == 2       \* mining and BLOCKCHAIN frames start below this chain length
MaxLockPeers == 2          \* connections are made while peers is shorter

peerSocketListLock == "peerSocketListLock"
peerSendLock == "peerSendLock"
webClientSocketLock == "webClientSocketLock"
webClientSendLock == "webClientSendLock"

\* the connection to the web client, webClientSocket
WebClient == "web"

InitLock ==
    /\ blockchain = InitialLedger.blockchain
    /\ unspentTxOuts = InitialLedger.unspentTxOuts
    /\ txPool = InitialLedger.txPool
    /\ cumulativeBlocksDifficulty = InitialLedger.cumulativeBlocksDifficulty
    /\ peer = InitialLedger
    /\ net = NoNet
    /\ peers = <<>>
    /\ sockets = [s \in Sockets \cup {WebClient} |-> NoSocket]
    /\ Lock = NoWorker
    /\ worker = [w \in Workers |-> Idle]
    /\ now = Now0
    /\ last = [op |-> "init", n |-> 0]

Holds(w, mutex) == worker[w].pc # "idle" /\ mutex \in worker[w].held

Free(mutex) == \A v \in Workers : ~Holds(v, mutex)

\* a goroutine at pc that holds no mutex, with the calls left to make in cont
Running(op, pc, cont) ==
    [pc |-> pc, op |-> op, held |-> {}, todo |-> <<>>, cont |-> cont]

\* the goroutine goes on with the next call of cont, and ends at "idle"
Continue(w, rec) ==
    worker' = [worker EXCEPT ![w] =
                  IF Head(rec.cont) = "idle" THEN Idle
                  ELSE [rec EXCEPT !.pc = Head(rec.cont), !.cont = Tail(rec.cont)]]

\* mineBlock: ProduceNextBlock and AddBlockToChain, then BroadcastLatest
LockMine(w) ==
    /\ At(w, "idle")
    /\ Len(blockchain) < MaxLockChainLen
    /\ \E r \in {ProduceNextBlock(CurrentLedger, now, MyAddress)} :
          /\ SetLedger(r.st)
          /\ worker' = [worker EXCEPT ![w] =
                IF r.err THEN Idle
                ELSE Running("mine", "bc_lock", <<"web_check", "idle">>)]
    /\ UNCHANGED <<Lock, now, last, peer, net, peers, sockets>>

\* reader and handleMessage on a BLOCKCHAIN frame, up to line 138
LockBlocks(w) ==
    /\ At(w, "idle")
    /\ Len(blockchain) < MaxLockChainLen
    /\ Len(peers) > 0
    /\ \E blocks \in BlockPayloads :
          worker' = [worker EXCEPT ![w] =
              [Running("blocks", "tip_lock", <<"web_check", "idle">>)
                  EXCEPT !.todo = blocks]]
    /\ UNCHANGED <<ledgerVars, Lock, now, last, peer, net, peers, sockets>>

\* handleReceivedBlocks line 138
TipLock(w) ==
    /\ At(w, "tip_lock")
    /\ Lock = NoWorker
    /\ Lock' = w
    /\ Goto(w, "tip_read")
    /\ UNCHANGED <<ledgerVars, now, last, peer, net, peers, sockets>>

\* lines 139-143, 150-153: the tip is read, the lock released and the branch
\* chosen
TipRead(w) ==
    /\ At(w, "tip_read")
    /\ Lock' = NoWorker
    /\ LET branch == BlocksBranch(worker[w].todo, GetLatestBlock(blockchain))
       IN CASE branch = "append" -> Goto(w, "app_lock")
            [] branch = "replace" -> Goto(w, "rep_lock")
            [] branch = "query" ->
                  worker' = [worker EXCEPT ![w].pc = "bc_lock", ![w].todo = <<>>]
            [] OTHER -> Continue(w, worker[w])
    /\ UNCHANGED <<ledgerVars, now, last, peer, net, peers, sockets>>

\* line 144
AppendLock(w) ==
    /\ At(w, "app_lock")
    /\ Lock = NoWorker
    /\ Lock' = w
    /\ Goto(w, "app_add")
    /\ UNCHANGED <<ledgerVars, now, last, peer, net, peers, sockets>>

\* line 145: AddBlockToChain, and the broadcast of lines 146-147 when it
\* returns true
AppendAdd(w) ==
    /\ At(w, "app_add")
    /\ \E r \in {AddBlockToChain(CurrentLedger, Last(worker[w].todo), now)} :
          /\ SetLedger(r.st)
          /\ worker' = [worker EXCEPT ![w] =
                IF r.ok
                THEN [@ EXCEPT !.pc = "bc_lock", !.todo = <<>>,
                               !.cont = <<"chain_unlock">> \o @]
                ELSE [@ EXCEPT !.pc = "chain_unlock", !.todo = <<>>]]
    /\ UNCHANGED <<Lock, now, last, peer, net, peers, sockets>>

\* line 154
ReplaceLock(w) ==
    /\ At(w, "rep_lock")
    /\ Lock = NoWorker
    /\ Lock' = w
    /\ Goto(w, "rep_run")
    /\ UNCHANGED <<ledgerVars, now, last, peer, net, peers, sockets>>

\* line 155: ReplaceChain, and its BroadcastLatest when the chain is replaced
ReplaceRun(w) ==
    /\ At(w, "rep_run")
    /\ \E r \in {ReplaceChain(CurrentLedger, worker[w].todo, now)} :
          /\ SetLedger(r.st)
          /\ worker' = [worker EXCEPT ![w] =
                IF r.err
                THEN [@ EXCEPT !.pc = "chain_unlock", !.todo = <<>>]
                ELSE [@ EXCEPT !.pc = "bc_lock", !.todo = <<>>,
                               !.cont = <<"web_check", "chain_unlock">> \o @]]
    /\ UNCHANGED <<Lock, now, last, peer, net, peers, sockets>>

\* lines 149 and 156
ChainUnlock(w) ==
    /\ At(w, "chain_unlock")
    /\ Lock' = NoWorker
    /\ Continue(w, worker[w])
    /\ UNCHANGED <<ledgerVars, now, last, peer, net, peers, sockets>>

\* broadcast line 99; the loop of lines 100-102 is over the peers of now
BroadcastLock(w) ==
    /\ At(w, "bc_lock")
    /\ Free(peerSocketListLock)
    /\ worker' = [worker EXCEPT ![w] =
          [@ EXCEPT !.held = @ \cup {peerSocketListLock}, !.todo = peers,
                    !.pc = IF peers = <<>> THEN "bc_unlock" ELSE "send_lock"]]
    /\ UNCHANGED <<ledgerVars, Lock, now, last, peer, net, peers, sockets>>

\* send line 108
SendLock(w) ==
    /\ At(w, "send_lock")
    /\ Free(peerSendLock)
    /\ worker' = [worker EXCEPT ![w].held = @ \cup {peerSendLock},
                                ![w].pc = "send_write"]
    /\ UNCHANGED <<ledgerVars, Lock, now, last, peer, net, peers, sockets>>

\* SendWrite without the Unlock of line 110
SendWriteNoUnlock(w) ==
    /\ At(w, "send_write")
    /\ LET rec == [worker[w] EXCEPT !.todo = Tail(@)]
       IN IF rec.todo # <<>>
          THEN worker' = [worker EXCEPT ![w] = [rec EXCEPT !.pc = "send_lock"]]
          ELSE IF peerSocketListLock \in rec.held
          THEN worker' = [worker EXCEPT ![w] = [rec EXCEPT !.pc = "bc_unlock"]]
          ELSE Continue(w, rec)
    /\ UNCHANGED <<ledgerVars, Lock, now, last, peer, net, peers, sockets>>

\* send lines 109-110: the frame is written and the mutex released; then the
\* next peer of the broadcast, or the return of send
SendWrite(w) ==
    /\ At(w, "send_write")
    /\ LET rec == [worker[w] EXCEPT !.held = @ \ {peerSendLock}, !.todo = Tail(@)]
       IN IF rec.todo # <<>>
          THEN worker' = [worker EXCEPT ![w] = [rec EXCEPT !.pc = "send_lock"]]
          ELSE IF peerSocketListLock \in rec.held
          THEN worker' = [worker EXCEPT ![w] = [rec EXCEPT !.pc = "bc_unlock"]]
          ELSE Continue(w, rec)
    /\ UNCHANGED <<ledgerVars, Lock, now, last, peer, net, peers, sockets>>

\* broadcast line 103
BroadcastUnlock(w) ==
    /\ At(w, "bc_unlock")
    /\ Continue(w, [worker[w] EXCEPT !.held = @ \ {peerSocketListLock}])
    /\ UNCHANGED <<ledgerVars, Lock, now, last, peer, net, peers, sockets>>

\* sendUpdateToWebClient lines 226-239: the return without a web client, or
\* the call of Lock
WebCheck(w) ==
    /\ At(w, "web_check")
    /\ IF sockets[WebClient].state = "none"
       THEN Continue(w, worker[w])
       ELSE /\ Free(webClientSendLock)
            /\ worker' = [worker EXCEPT ![w].held = @ \cup {webClientSendLock},
                                        ![w].pc = "web_write"]
    /\ UNCHANGED <<ledgerVars, Lock, now, last, peer, net, peers, sockets>>

\* lines 240-244
WebWrite(w) ==
    /\ At(w, "web_write")
    /\ Continue(w, [worker[w] EXCEPT !.held = @ \ {webClientSendLock}])
    /\ UNCHANGED <<ledgerVars, Lock, now, last, peer, net, peers, sockets>>

\* reader and handleMessage on GET_LATEST_BLOCK, GET_ALL_BLOCKS or
\* GET_TX_POOL: one send to the connection, then sendUpdateToWebClient
LockRequest(w) ==
    /\ At(w, "idle")
    /\ \E n \in 1..Len(peers) :
          worker' = [worker EXCEPT ![w] =
              [Running("request", "send_lock", <<"web_check", "idle">>)
                  EXCEPT !.todo = <<peers[n]>>]]
    /\ UNCHANGED <<ledgerVars, Lock, now, last, peer, net, peers, sockets>>

\* reader lines 257-260: ReadMessage failed on the connection ws
LockReadError(w) ==
    /\ At(w, "idle")
    /\ \E n \in 1..Len(peers) :
          worker' = [worker EXCEPT ![w] =
              [Running("evict", "evict_lock", <<"idle">>) EXCEPT !.todo = <<peers[n]>>]]
    /\ UNCHANGED <<ledgerVars, Lock, now, last, peer, net, peers, sockets>>

\* reader line 260
EvictLock(w) ==
    /\ At(w, "evict_lock")
    /\ Free(peerSocketListLock)
    /\ worker' = [worker EXCEPT ![w].held = @ \cup {peerSocketListLock},
                                ![w].pc = "evict_remove"]
    /\ UNCHANGED <<ledgerVars, Lock, now, last, peer, net, peers, sockets>>

\* reader lines 261-269
EvictRemove(w) ==
    /\ At(w, "evict_remove")
    /\ LET ws == worker[w].todo[1]
       IN /\ peers' = SelectSeq(peers, LAMBDA s : s # ws)
          /\ sockets' = [sockets EXCEPT ![ws] = NoSocket]
    /\ Continue(w, [worker[w] EXCEPT !.held = @ \ {peerSocketListLock}])
    /\ UNCHANGED <<ledgerVars, Lock, now, last, peer, net>>

\* AddPeer lines 339-343 and P2pEndpoint lines 309-316: a connection is made
LockDial(w) ==
    /\ At(w, "idle")
    /\ Len(peers) < MaxLockPeers
    /\ \E ws \in Sockets :
          /\ sockets[ws].state = "none"
          /\ \A v \in Workers :
                (worker[v].pc # "idle" /\ worker[v].op = "dial") => worker[v].todo # <<ws>>
          /\ worker' = [worker EXCEPT ![w] =
                [Running("dial", "dial_lock", <<"idle">>) EXCEPT !.todo = <<ws>>]]
    /\ UNCHANGED <<ledgerVars, Lock, now, last, peer, net, peers, sockets>>

\* lines 344 and 317
DialLock(w) ==
    /\ At(w, "dial_lock")
    /\ Free(peerSocketListLock)
    /\ worker' = [worker EXCEPT ![w].held = @ \cup {peerSocketListLock},
                                ![w].pc = "dial_append"]
    /\ UNCHANGED <<ledgerVars, Lock, now, last, peer, net, peers, sockets>>

\* lines 345-346 and 318-319
DialAppend(w) ==
    /\ At(w, "dial_append")
    /\ LET ws == worker[w].todo[1]
       IN /\ peers' = Append(peers, ws)
          /\ sockets' = [sockets EXCEPT ![ws] = Established]
    /\ Continue(w, [worker[w] EXCEPT !.held = @ \ {peerSocketListLock}])
    /\ UNCHANGED <<ledgerVars, Lock, now, last, peer, net>>

\* go send(ws, getLatestBlockMsgBytes), lines 355 and 328
LockHello(w) ==
    /\ At(w, "idle")
    /\ \E n \in 1..Len(peers) :
          worker' = [worker EXCEPT ![w] =
              [Running("hello", "send_lock", <<"idle">>) EXCEPT !.todo = <<peers[n]>>]]
    /\ UNCHANGED <<ledgerVars, Lock, now, last, peer, net, peers, sockets>>

\* go broadcast(nil, getTxPoolMsg), lines 359 and 332
LockGetTxPool(w) ==
    /\ At(w, "idle")
    /\ Len(peers) > 0
    /\ worker' = [worker EXCEPT ![w] = Running("getTxPool", "bc_lock", <<"idle">>)]
    /\ UNCHANGED <<ledgerVars, Lock, now, last, peer, net, peers, sockets>>

\* WsEndpoint up to line 299
LockWsEndpoint(w) ==
    /\ At(w, "idle")
    /\ sockets[WebClient].state = "none"
    /\ \A v \in Workers : worker[v].pc # "idle" => worker[v].op # "ws"
    /\ worker' = [worker EXCEPT ![w] = Running("ws", "ws_lock", <<"web_check", "idle">>)]
    /\ UNCHANGED <<ledgerVars, Lock, now, last, peer, net, peers, sockets>>

\* line 299
WsLock(w) ==
    /\ At(w, "ws_lock")
    /\ Free(webClientSocketLock)
    /\ worker' = [worker EXCEPT ![w].held = @ \cup {webClientSocketLock},
                                ![w].pc = "ws_set"]
    /\ UNCHANGED <<ledgerVars, Lock, now, last, peer, net, peers, sockets>>

\* lines 300-301
WsSet(w) ==
    /\ At(w, "ws_set")
    /\ sockets' = [sockets EXCEPT ![WebClient] = Established]
    /\ Continue(w, [worker[w] EXCEPT !.held = @ \ {webClientSocketLock}])
    /\ UNCHANGED <<ledgerVars, Lock, now, last, peer, net, peers>>

\* the calls of Lock
Acquire(w) ==
    \/ TipLock(w) \/ AppendLock(w) \/ ReplaceLock(w) \/ BroadcastLock(w)
    \/ SendLock(w) \/ WebCheck(w) \/ EvictLock(w) \/ DialLock(w) \/ WsLock(w)

\* the steps between them
Proceed(w) ==
    \/ TipRead(w) \/ AppendAdd(w) \/ ReplaceRun(w) \/ ChainUnlock(w)
    \/ SendWrite(w) \/ BroadcastUnlock(w) \/ WebWrite(w)
    \/ EvictRemove(w) \/ DialAppend(w) \/ WsSet(w)

\* a goroutine starts
Begin(w) ==
    \/ LockMine(w) \/ LockBlocks(w) \/ LockRequest(w) \/ LockReadError(w)
    \/ LockDial(w) \/ LockHello(w) \/ LockGetTxPool(w) \/ LockWsEndpoint(w)

NextLock == \E w \in Workers : Begin(w) \/ Acquire(w) \/ Proceed(w)

\* the scheduler runs every goroutine that can run, and a goroutine waiting
\* for a sync.Mutex that is released again and again gets it
SpecLock ==
    InitLock /\ [][NextLock]_vars /\ \A w \in Workers : WF_vars(Proceed(w)) /\ SF_vars(Acquire(w))

(***************************************************************************)
(* SpecGossip: two nodes on the genesis chain that connect and gossip.  The *)
(* second node mines and its wallet pays this node; a third peer writes     *)
(* TX_POOL frames to this node.  Each frame is handled to its end by the    *)
(* node it reaches.  last.sent counts the frames of the third peer.         *)
(***************************************************************************)
MaxGossipHeight == 1       \* the second node mines below this block index
MaxGossipPoolLen == 2      \* frames are read while each pool is at most this long
MaxInjected == 1           \* TX_POOL frames the third peer writes

InitGossip ==
    /\ blockchain = InitialLedger.blockchain
    /\ unspentTxOuts = InitialLedger.unspentTxOuts
    /\ txPool = InitialLedger.txPool
    /\ cumulativeBlocksDifficulty = InitialLedger.cumulativeBlocksDifficulty
    /\ peer = InitialLedger
    /\ net = NoNet
    /\ peers = <<>>
    /\ sockets = [s \in Sockets |-> NoSocket]
    /\ Lock = NoWorker
    /\ worker = [w \in Workers |-> Idle]
    /\ now = Now0
    /\ last = [op |-> "gossip", sent |-> 0, n |-> 0]

\* mineBlock on the second node
GossipMineBlock ==
    /\ GetLatestBlock(peer.blockchain).Fields.Index < MaxGossipHeight
    /\ \E r \in {ProduceNextBlock(peer, now, PeerAddress)} :
          /\ peer' = r.st
          /\ net' = [net EXCEPT !.toLocal = Sent(@, r.out)]
    /\ UNCHANGED <<ledgerVars, Lock, worker, now, last, peers, sockets>>

\* sendTx on the second node: its wallet pays 30 to this node
GossipSendTx ==
    /\ peer.txPool = <<>>
    /\ \E r \in {SendTransaction(peer, MyAddress, 30, PeerAddress)} :
          /\ ~r.err
          /\ peer' = r.st
          /\ net' = [net EXCEPT !.toLocal = Sent(@, r.out)]
    /\ UNCHANGED <<ledgerVars, Lock, worker, now, last, peers, sockets>>

\* a third peer writes a TX_POOL frame to this node: a transaction without
\* inputs whose output is 0
GossipInject ==
    /\ net.connected
    /\ last.sent < MaxInjected
    /\ net' = [net EXCEPT !.toLocal = Append(@, Frame("TX_POOL", <<ZeroTx>>))]
    /\ last' = [last EXCEPT !.sent = @ + 1, !.n = 1 - @]
    /\ UNCHANGED <<ledgerVars, peer, Lock, worker, now, peers, sockets>>

PoolsBelowBound ==
    Len(txPool) <= MaxGossipPoolLen /\ Len(peer.txPool) <= MaxGossipPoolLen

\* reader on this node
GossipToLocal == PoolsBelowBound /\ DeliverToLocal

\* reader on the second node
GossipToPeer == PoolsBelowBound /\ DeliverToPeer

NextGossip ==
    AddPeer \/ GossipMineBlock \/ GossipSendTx \/ GossipInject
      \/ GossipToLocal \/ GossipToPeer

\* every frame written is read and handled; mineBlock, sendTx and the third
\* peer may stop at any moment
SpecGossip ==
    InitGossip /\ [][NextGossip]_vars /\ WF_vars(GossipToLocal) /\ WF_vars(GossipToPeer)

(***************************************************************************)
(* Claims                                                                   *)
(***************************************************************************)
\* the step just taken ran ReplaceChain on the payload last'.blocks
ReplaceStep == last'.n # last.n /\ last'.op = "blocks" /\ last'.branch = "replace"

ChainIsValid(blocks, now_) == ~IsValidBlockChain(blocks, now_).err

\* C2: ReplaceChain replaces the local chain with the candidate if and only
\* if the candidate passes whole-chain validation and its sum of 2^difficulty
\* is strictly greater than that of the current local chain; in every other
\* case the local chain is kept.
C2_ReplaceIffHeavier ==
    [][ReplaceStep =>
          /\ (blockchain' = last'.blocks) <=>
                 (/\ ChainIsValid(last'.blocks, now)
                  /\ GetCumulativeDifficulty(last'.blocks)
                        > GetCumulativeDifficulty(blockchain))
          /\ (blockchain' # last'.blocks => blockchain' = blockchain)]_vars

\* C3: a valid candidate chain whose cumulative difficulty equals that of the
\* current local chain never replaces the local chain.
C3_TieKeepsLocal ==
    [][(/\ ReplaceStep
        /\ ChainIsValid(last'.blocks, now)
        /\ GetCumulativeDifficulty(last'.blocks) = GetCumulativeDifficulty(blockchain))
          => blockchain' = blockchain]_vars


\* the UTXO set obtained by replaying a chain block by block from the empty set
RECURSIVE ReplayFrom(_, _, _)
ReplayFrom(chain, i, unspentTxOuts_) ==
    IF i > Len(chain) THEN [err |-> FALSE, val |-> unspentTxOuts_]
    ELSE LET r == ProcessTransactions(chain[i].Fields.Transactions, unspentTxOuts_,
                                      chain[i].Fields.Index)
         IN IF r.err THEN r ELSE ReplayFrom(chain, i + 1, r.val)

Replay(chain) == ReplayFrom(chain, 1, <<>>)

\* C1: in every state in which blockchain.Lock is free, the state an observer
\* that takes the lock would read, unspentTxOuts is the UTXO set obtained by
\* replaying the local chain block by block from the empty set.
C1_ObserverSeesReplayedUtxo ==
    Lock = NoWorker =>
        (~Replay(blockchain).err /\ unspentTxOuts = Replay(blockchain).val)

\* C4: across every step of the node the sum of 2^difficulty over the blocks
\* of the local chain never decreases.
C4_CumulativeDifficultyMonotone ==
    [][GetCumulativeDifficulty(blockchain') >= GetCumulativeDifficulty(blockchain)]_vars

\* C5: in every reachable state the local chain is non-empty, starts with the
\* hard-coded genesis block, and each later block at position i has index i,
\* the hash of the block at position i-1 as prevHash, and the difficulty
\* required after its predecessor in that chain.
C5_ChainWellFormed ==
    /\ Len(blockchain) >= 1
    /\ blockchain[1] = GenesisBlock
    /\ \A i \in 2..Len(blockchain) :
          /\ blockchain[i].Fields.Index = i - 1
          /\ blockchain[i].Fields.PrevHash = blockchain[i - 1].Hash
          /\ blockchain[i].Fields.Difficulty = getDifficulty(blockchain, blockchain[i - 1])

SameOutput(a, b) == a.TxOutId = b.TxOutId /\ a.TxOutIndex = b.TxOutIndex

\* C8: in every reachable state no (txOutId, txOutIndex) is referenced by the
\* inputs of two different mempool entries.
C8_PoolInputsDisjoint ==
    \A i, j \in 1..Len(txPool) :
        i < j => \A a \in 1..Len(txPool[i].TxIns), b \in 1..Len(txPool[j].TxIns) :
                    ~SameOutput(txPool[i].TxIns[a], txPool[j].TxIns[b])

\* C9: in every state in which no chain mutation holds blockchain.Lock, every
\* input of every mempool transaction references an entry of unspentTxOuts.
C9_PoolInputsUnspent ==
    Lock = NoWorker =>
        \A i \in 1..Len(txPool) : \A a \in 1..Len(txPool[i].TxIns) :
            hasTxIn(txPool[i].TxIns[a], unspentTxOuts)

\* C6: the unspent outputs of every chain the node accepts hold no two
\* entries with the same (txOutId, txOutIndex).
C6_UnspentOutputsUnique ==
    \A i, j \in 1..Len(unspentTxOuts) :
        i < j => ~SameOutput(unspentTxOuts[i], unspentTxOuts[j])

\* C7: the amounts of the unspent outputs of every chain the node accepts sum
\* to 50 times the number of blocks of that chain.
C7_SupplyIsFiftyPerBlock ==
    SumSeq([n \in 1..Len(unspentTxOuts) |-> unspentTxOuts[n].Amount])
        = coinBaseAmount * Len(blockchain)

\* the step just taken handled the frame last'.frame, read from last'.from
FrameStep(code) ==
    last'.n # last.n /\ last'.op = "frame" /\ last'.frame.Code = code

\* C11: when a BLOCKCHAIN payload arrives that is empty or whose last block
\* has an index less than or equal to the local tip's, the handler leaves
\* chain, unspent outputs, mempool and cumulative difficulty unchanged and
\* writes no frame to any peer.
C11_StaleTipIgnored ==
    [][(/\ FrameStep("BLOCKCHAIN")
        /\ \/ last'.frame.Data = <<>>
           \/ Last(last'.frame.Data).Fields.Index
                 <= GetLatestBlock(blockchain).Fields.Index)
          => (UNCHANGED ledgerVars /\ last'.out = <<>>)]_vars

\* a payload whose tip is not ahead of the local one was read from the second
\* of two peers and nothing was written
C11_Witness ==
    /\ last.op = "frame" /\ last.frame.Code = "BLOCKCHAIN"
    /\ Len(peers) = 2 /\ last.from = peers[2]
    /\ Len(last.frame.Data) > 1
    /\ Last(last.frame.Data).Fields.Index = GetLatestBlock(blockchain).Fields.Index
    /\ Last(last.frame.Data) # GetLatestBlock(blockchain)
    /\ last.out = <<>>

\* the goroutine w took the step
Stepped(w) == worker'[w] # worker[w]

\* the goroutine w handles a BLOCKCHAIN frame whose last block, worker[w].blk,
\* it found to be ahead of the tip it read and to name that tip's hash
Appending(w) ==
    /\ worker[w].pc # "idle"
    /\ worker[w].op = "blocks"
    /\ "blk" \in DOMAIN worker[w]

\* C12: when the last block rcv of a BLOCKCHAIN payload is ahead of the local
\* tip and names the local tip's hash, the handler validates and appends
\* only rcv, against the tip current at append time: each of its steps
\* leaves the chain as it is or extends it by exactly rcv, a valid successor
\* of the tip it is appended to, and the handler never goes on to ask for
\* all blocks or to replace the chain.
C12_AppendsReceivedOnTip ==
    [][\A w \in Workers :
          (Stepped(w) /\ Appending(w)) =>
             /\ \/ blockchain' = blockchain
                \/ /\ blockchain' = Append(blockchain, worker[w].blk)
                   /\ IsValidBlock(blockchain, GetLatestBlock(blockchain),
                                   worker[w].blk, now)
             /\ worker'[w].pc \in {"idle", "recv_lock", "add_validate", "add_append",
                                   "add_cum", "add_utxo", "add_pool", "add_bcast"}]_vars

C14_ExtensionBroadcastsNewTip ==
    [][\A w \in Workers :
          /\ (Stepped(w) /\ At(w, "add_append")) => worker'[w].pc = "add_cum"
          /\ (Stepped(w) /\ At(w, "add_bcast")) =>
                 last'.out = broadcast(peers, Frame("BLOCKCHAIN", <<worker[w].blk>>))
          /\ (Stepped(w) /\ At(w, "add_validate") /\ worker'[w] = Idle) =>
                 last' = last]_vars

\* C15: every admission to the mempool, by sendTx or by a transaction of a
\* TX_POOL frame, is followed by a broadcast that writes to every peer a
\* TX_POOL frame whose pool contains the admitted transaction; a transaction
\* that is refused leaves the pool unchanged and writes no frame.
C15_AdmissionBroadcastsPool ==
    [][\A w \in Workers :
          /\ (Stepped(w) /\ At(w, "pool_append")) => worker'[w].pc = "pool_bcast"
          /\ (Stepped(w) /\ At(w, "pool_bcast")) =>
                 /\ Len(last'.out) = Len(peers)
                 /\ \A i \in 1..Len(peers) :
                       /\ last'.out[i].to = peers[i]
                       /\ last'.out[i].frame.Code = "TX_POOL"
                       /\ \E k \in 1..Len(last'.out[i].frame.Data) :
                             last'.out[i].frame.Data[k] = Head(worker[w].txs)
          /\ (Stepped(w) /\ At(w, "pool_check") /\ worker'[w].pc # "pool_append") =>
                 (txPool' = txPool /\ last' = last)]_vars

\* the snapshot a request asks for
Snapshot(code) ==
    CASE code = "GET_LATEST_BLOCK" -> Frame("BLOCKCHAIN", <<GetLatestBlock(blockchain)>>)
      [] code = "GET_ALL_BLOCKS" -> Frame("BLOCKCHAIN", blockchain)
      [] code = "GET_TX_POOL" -> Frame("TX_POOL", txPool)

\* C16: on GET_LATEST_BLOCK, GET_ALL_BLOCKS or GET_TX_POOL the node writes
\* exactly one frame, to the peer that asked and to no other: a BLOCKCHAIN
\* frame holding only the local tip, a BLOCKCHAIN frame holding the whole
\* local chain, or a TX_POOL frame holding the whole mempool; chain, unspent
\* outputs, mempool and peer set stay as they were.
C16_RequestsAnsweredToSender ==
    [][\A code \in {"GET_LATEST_BLOCK", "GET_ALL_BLOCKS", "GET_TX_POOL"} :
          FrameStep(code) =>
             /\ last'.out = <<send(last'.from, Snapshot(code))>>
             /\ UNCHANGED <<blockchain, unspentTxOuts, txPool, peers>>]_vars

\* the second of two peers asked for all blocks of a node that holds two
\* blocks and a transaction in its pool, and was the only one answered
C16_Witness ==
    /\ last.op = "frame" /\ last.frame.Code = "GET_ALL_BLOCKS"
    /\ Len(peers) = 2 /\ last.from = peers[2]
    /\ Len(blockchain) = 2 /\ txPool # <<>>
    /\ last.out = <<send(peers[2], Frame("BLOCKCHAIN", blockchain))>>

\* C17: a connection is in the peer set before any frame is written to it;
\* GET_LATEST_BLOCK is written to that connection, and only after it the
\* GET_TX_POOL of the handshake is written to every connection of the peer
\* set, which contains the new one unless it was evicted meanwhile.
JoinedPeer(ws) == sockets[ws].state # "none"

C17_HandshakeOrder ==
    [][\A ws \in Sockets :
          /\ (last' # last) =>
                \A n \in 1..Len(last'.out) : JoinedPeer(last'.out[n].to)
          /\ (sockets[ws].hello = "pending" /\ sockets'[ws].hello = "done"
                /\ Writable(ws)) =>
                last'.out = <<send(ws, Frame("GET_LATEST_BLOCK", <<>>))>>
          /\ (sockets[ws].getPool = "sleep" /\ sockets'[ws].getPool = "done") =>
                /\ sockets[ws].hello = "done"
                /\ last'.out = Written(broadcast(peers, Frame("GET_TX_POOL", <<>>)))
                /\ (Writable(ws) /\ sockets[ws].reader = "reading") =>
                      \E n \in 1..Len(last'.out) : last'.out[n].to = ws]_vars

\* C18: a connection on which a read or a write returned an error is closed
\* and out of the peer set once the goroutine that met the error has dealt
\* with it, no frame is written to it from then on, and the other peers stay
\* in the set.
InPeers(ws) == \E n \in 1..Len(peers) : peers[n] = ws

C18_IoErrorEvicts ==
    /\ [](\A ws \in Sockets :
             (sockets[ws].ioError /\ sockets[ws].reader # "failed") =>
                (sockets[ws].state = "closed" /\ ~InPeers(ws)))
    /\ [][\A ws \in Sockets :
             /\ (sockets[ws].ioError /\ sockets[ws].reader # "failed"
                   /\ last' # last) =>
                   \A n \in 1..Len(last'.out) : last'.out[n].to # ws
             /\ (InPeers(ws) /\ ~sockets'[ws].ioError) =>
                   \E n \in 1..Len(peers') : peers'[n] = ws]_vars

\* C19: a chain handed to ReplaceChain that fails whole-chain validation, or
\* that is valid but whose cumulative difficulty is not strictly greater than
\* that of the local chain, leaves the chain, the UTXO set and the mempool as
\* they were, and nothing is written to the peers.
C19_RejectedOfferChangesNothing ==
    [][(/\ ReplaceStep
        /\ \/ ~ChainIsValid(last'.blocks, now)
           \/ GetCumulativeDifficulty(last'.blocks)
                 <= GetCumulativeDifficulty(blockchain))
          => /\ UNCHANGED <<blockchain, unspentTxOuts, txPool>>
             /\ last'.out = <<>>]_vars

\* C20: a block on a predecessor P other than the genesis block, all other
\* rules passing, is valid exactly when P.ts - 60 < ts < now + 60: rejected
\* at P.ts - 60 and at now + 60, accepted at P.ts - 59 and at now + 59.
C20_TimestampWindow ==
    (last.op = "valid" /\ GetLatestBlock(blockchain).Fields.Index # 0) =>
       (last.valid <=>
           /\ GetLatestBlock(blockchain).Fields.Ts - 60 < last.block.Fields.Ts
           /\ last.block.Fields.Ts < now + 60)

\* the rule of the specification at a retarget with reference block R
RetargetRule(R, elapsed) ==
    IF elapsed < (difficultyAdjustmentInterval * blockGenerationInterval) \div 2
    THEN R.Fields.Difficulty + 1
    ELSE IF elapsed > 2 * difficultyAdjustmentInterval * blockGenerationInterval
    THEN (IF R.Fields.Difficulty - 1 > 0 THEN R.Fields.Difficulty - 1 ELSE 0)
    ELSE R.Fields.Difficulty

\* the reference block C[P.index + 1 - A] of a chain C, whose block of index
\* k is C[k + 1]
ReferenceBlock(C, P) == C[P.Fields.Index + 1 - difficultyAdjustmentInterval + 1]

requiredDifficulty(C, P) ==
    IF P.Fields.Index > 0 /\ (P.Fields.Index + 1) % difficultyAdjustmentInterval = 0
    THEN RetargetRule(ReferenceBlock(C, P), P.Fields.Ts - ReferenceBlock(C, P).Fields.Ts)
    ELSE P.Fields.Difficulty

\* C21: the required difficulty on a predecessor P is P.difficulty except
\* when P.index > 0 and (P.index + 1) mod 10 = 0, and for exactly those P it
\* is the retarget on R = C[P.index + 1 - 10] with elapsed = P.ts - R.ts.
C21_RetargetsEveryTenth ==
    last.op = "difficulty" =>
       last.difficulty = requiredDifficulty(blockchain, last.block)

\* getDifficulty hands the block to getAdjustedDifficulty
AtRetarget(P) ==
    P.Fields.Index % difficultyAdjustmentInterval = 0 /\ P.Fields.Index # 0

\* C22: at a retarget the result is R.difficulty + 1 when elapsed < 50,
\* max(0, R.difficulty - 1) when elapsed > 200 and R.difficulty otherwise,
\* with elapsed = P.ts - R.ts; it is never below 0.
C22_RetargetThresholds ==
    (last.op = "difficulty" /\ AtRetarget(last.block)) =>
       /\ last.difficulty =
             RetargetRule(ReferenceBlock(blockchain, last.block),
                          last.block.Fields.Ts
                             - ReferenceBlock(blockchain, last.block).Fields.Ts)
       /\ last.difficulty >= 0

\* the step just taken ran the HTTP handler op to its end
WalletStep(op) == last'.n # last.n /\ last'.op = op

\* the wallet's unspent outputs that no input of a mempool entry references
Spendable == filterTxPoolTxs(FindUnspentTxOuts(MyAddress, unspentTxOuts), txPool)

SpendableSum == SumSeq([k \in 1..Len(Spendable) |-> Spendable[k].Amount])

\* C23: sendTx and sendCoins asked for more than the wallet's spendable
\* outputs sum to return an error, leave chain, UTXO set and mempool as they
\* were, and broadcast nothing.
C23_InsufficientFundsRefused ==
    [][((WalletStep("sendTx") \/ WalletStep("sendCoins"))
          /\ SpendableSum < last'.amount)
          => /\ last'.err
             /\ UNCHANGED <<blockchain, unspentTxOuts, txPool>>
             /\ last'.out = <<>>]_vars

\* the sum of the amounts of a sequence of unspent outputs or of outputs
AmountOf(outs) == SumSeq([k \in 1..Len(outs) |-> outs[k].Amount])

\* the shortest prefix of outs whose amounts reach amount
ShortestPrefix(outs, amount) ==
    SubSeq(outs, 1,
           CHOOSE n \in 1..Len(outs) :
              /\ AmountOf(SubSeq(outs, 1, n)) >= amount
              /\ \A m \in 1..(n - 1) : AmountOf(SubSeq(outs, 1, m)) < amount)

\* the outputs sendCoins is to create for a payment of amount out of inputSum
PaymentOuts(address, amount, inputSum) ==
    IF inputSum = amount THEN <<TxOut(address, amount)>>
    ELSE <<TxOut(address, amount), TxOut(MyAddress, inputSum - amount)>>

\* C24: with no other operation running, sendCoins(B, amount) for a positive
\* amount, a well-formed address B and spendable outputs that sum to at least
\* amount appends one block made of the coinbase and of one transaction that
\* spends the shortest prefix of the spendable outputs reaching amount into
\* (B, amount) and, when it is not zero, the change (A, inputSum - amount).
C24_SendCoinsPaysFromPrefix ==
    [][(/\ WalletStep("sendCoins")
        /\ last'.amount > 0
        /\ IsValidBase58Address(last'.address)
        /\ SpendableSum >= last'.amount)
          => /\ ~last'.err
             /\ Len(blockchain') = Len(blockchain) + 1
             /\ SubSeq(blockchain', 1, Len(blockchain)) = blockchain
             /\ \E txs \in {GetLatestBlock(blockchain').Fields.Transactions},
                   used \in {ShortestPrefix(Spendable, last'.amount)} :
                   /\ Len(txs) = 2
                   /\ txs[1] = GetCoinbaseTransaction(MyAddress, Len(blockchain))
                   /\ [k \in 1..Len(txs[2].TxIns) |->
                          <<txs[2].TxIns[k].TxOutId, txs[2].TxIns[k].TxOutIndex>>]
                        = [k \in 1..Len(used) |->
                              <<used[k].TxOutId, used[k].TxOutIndex>>]
                   /\ txs[2].TxOuts
                        = PaymentOuts(last'.address, last'.amount, AmountOf(used))
                   /\ AmountOf(txs[2].TxOuts) = AmountOf(used)]_vars

\* C25: with an empty mempool and no other operation running, mineBlock
\* succeeds and appends one block whose only transaction is the coinbase
\* paying 50 to the local wallet: the chain grows by one block and the
\* wallet's balance by 50; on the genesis chain the result has two blocks and
\* block 1 has difficulty 0.
C25_MineBlockAddsCoinbase ==
    [][(WalletStep("mineBlock") /\ txPool = <<>>)
          => /\ ~last'.err
             /\ Len(blockchain') = Len(blockchain) + 1
             /\ SubSeq(blockchain', 1, Len(blockchain)) = blockchain
             /\ GetLatestBlock(blockchain').Fields.Transactions
                  = <<GetCoinbaseTransaction(MyAddress, Len(blockchain))>>
             /\ GetLatestBlock(blockchain').Fields.Transactions[1].TxOuts
                  = <<TxOut(MyAddress, 50)>>
             /\ GetBalance(MyAddress, unspentTxOuts')
                  = GetBalance(MyAddress, unspentTxOuts) + 50
             /\ (blockchain = <<GenesisBlock>>) =>
                   (Len(blockchain') = 2 /\ blockchain'[2].Fields.Difficulty = 0)]_vars

\* C26: every entry of the UTXO set of a chain the node accepted has a
\* non-negative amount.
C26_AmountsNonNegative ==
    \A k \in 1..Len(unspentTxOuts) : unspentTxOuts[k].Amount >= 0

\* C27: a worker's step that changes the chain, the UTXO set, the mempool or
\* the stored cumulative difficulty is taken while that worker holds
\* blockchain.Lock.
C27_MutationsUnderLock ==
    [][\A w \in Workers :
          (Stepped(w) /\ ledgerVars' # ledgerVars) => Lock = w]_vars

\* the tip is a block of a peer and not the one w mined its block on
TipChangedByPeer(w) ==
    /\ worker[w].blk.Fields.PrevHash # GetLatestBlock(blockchain).Hash
    /\ GetLatestBlock(blockchain).Fields.Transactions[1].TxOuts[1].Address = PeerAddress

\* C28: when a peer's append or replacement has changed the tip since the
\* miner read it, the commit of the block the miner found validates it
\* against the new tip: the block is not appended, the ledger stays as the
\* peer's update left it, the call returns and no BLOCKCHAIN frame goes out.
C28_StaleMinedBlockDropped ==
    [][\A w \in Workers :
          (/\ Stepped(w)
           /\ worker[w].pc \in {"add_validate", "add_append"}
           /\ worker[w].op = "mine"
           /\ TipChangedByPeer(w))
             => (ledgerVars' = ledgerVars /\ worker'[w].pc = "idle")]_vars


\* the entries of the UTXO set that have the pair (txOutId, txOutIndex) of txIn
EntriesOf(txIn, utxoSet) ==
    {n \in 1..Len(utxoSet) :
        /\ utxoSet[n].TxOutId = txIn.TxOutId
        /\ utxoSet[n].TxOutIndex = txIn.TxOutIndex}

ReferencedAmount(txIn, utxoSet) ==
    utxoSet[CHOOSE n \in EntriesOf(txIn, utxoSet) : TRUE].Amount

\* the conditions the statement of validateTransaction lists
TransactionConditions(tx, utxoSet) ==
    /\ GetTransactionId(tx) = tx.Id
    /\ \A n \in 1..Len(tx.TxIns) :
          \E e \in EntriesOf(tx.TxIns[n], utxoSet) :
             VerifySignature(tx.Id, tx.TxIns[n].Signature, utxoSet[e].Address)
    /\ SumSeq([n \in 1..Len(tx.TxIns) |-> ReferencedAmount(tx.TxIns[n], utxoSet)])
         = SumSeq([n \in 1..Len(tx.TxOuts) |-> tx.TxOuts[n].Amount])

\* C29: validateTransaction(tx, utxoSet) succeeds exactly when the recomputed
\* id is tx.id, every input names an entry of utxoSet and is signed over
\* tx.id under that entry's address, and the referenced amounts sum to the
\* output amounts; a transaction with an input that names no entry is
\* rejected.
C29_ValidateTransactionIff ==
    last.op = "validateTransaction" =>
       /\ last.valid <=> TransactionConditions(last.transaction, unspentTxOuts)
       /\ (\E n \in 1..Len(last.transaction.TxIns) :
              EntriesOf(last.transaction.TxIns[n], unspentTxOuts) = {})
             => ~last.valid

\* a transaction of two inputs passed, and its inputs hold a positive amount
C29_Witness ==
    /\ last.op = "validateTransaction"
    /\ last.valid
    /\ Len(last.transaction.TxIns) = 2
    /\ last.transaction.TxIns[1] # last.transaction.TxIns[2]
    /\ SumSeq([n \in 1..Len(last.transaction.TxOuts) |->
                  last.transaction.TxOuts[n].Amount]) > 0

\* the conditions the statement of validateCoinbase lists
CoinbaseConditions(tx, blockIndex) ==
    /\ GetTransactionId(tx) = tx.Id
    /\ Len(tx.TxIns) = 1
    /\ tx.TxIns[1].TxOutIndex = blockIndex
    /\ Len(tx.TxOuts) = 1
    /\ tx.TxOuts[1].Amount = 50

\* two inputs among txIns have the same pair (txOutId, txOutIndex)
SharedPair(txIns) ==
    \E n, m \in 1..Len(txIns) :
       /\ n # m
       /\ txIns[n].TxOutId = txIns[m].TxOutId
       /\ txIns[n].TxOutIndex = txIns[m].TxOutIndex

\* the conditions the statement of validateBlockTransactions lists
BlockConditions(txs, utxoSet, blockIndex) ==
    /\ txs # <<>>
    /\ CoinbaseConditions(txs[1], blockIndex)
    /\ ~SharedPair(FlattenTxIns(txs))
    /\ \A n \in 2..Len(txs) : TransactionConditions(txs[n], utxoSet)

\* C30: validateBlockTransactions(txs, utxoSet, blockIndex) succeeds exactly
\* when txs is not empty, txs[0] is a valid coinbase for blockIndex, no two
\* inputs of the block have the same pair (txOutId, txOutIndex) and every
\* transaction after the first validates against utxoSet; inputs with
\* different pairs are never taken for duplicates.
C30_ValidateBlockTransactionsIff ==
    last.op = "validateBlockTransactions" =>
       (last.valid <=>
           BlockConditions(last.transactions, unspentTxOuts, last.blockIndex))


\* the orderings of the transactions after the first of txs
Reorderings(txs) ==
    {<<txs[1]>> \o [i \in 1..(Len(txs) - 1) |-> txs[p[i] + 1]] :
        p \in Permutations(1..(Len(txs) - 1))}

ElementsOf(s) == {s[n] : n \in 1..Len(s)}

\* (utxoSet minus the entries an input of txs refers to) union the outputs
\* of txs
ExpectedUtxoSet(txs, utxoSet) ==
    LET consumed == {<<txs[i].TxIns[j].TxOutId, txs[i].TxIns[j].TxOutIndex>> :
                        <<i, j>> \in {<<i, j>> \in (1..Len(txs)) \X (1..FanWidth) :
                                         j <= Len(txs[i].TxIns)}}
        produced == {UnspentTxOut(txs[i].Id, j - 1,
                                  txs[i].TxOuts[j].Address, txs[i].TxOuts[j].Amount) :
                        <<i, j>> \in {<<i, j>> \in (1..Len(txs)) \X (1..FanWidth) :
                                         j <= Len(txs[i].TxOuts)}}
    IN {u \in ElementsOf(utxoSet) : <<u.TxOutId, u.TxOutIndex>> \notin consumed}
         \cup produced

\* C31: with the coinbase first, every ordering of the other transactions of
\* a block is accepted or rejected alike by processTransactions and, when
\* accepted, gives the same UTXO set as a set: the prior set minus the
\* entries an input refers to plus the outputs of all transactions; when
\* rejected the prior UTXO set stays as it was.
C31_OrderOfSpendsIrrelevant ==
    [][(last'.n # last.n /\ last'.op = "processTransactions") =>
          /\ \A txs \in Reorderings(last'.transactions) :
                LET r == ProcessTransactions(txs, unspentTxOuts, last'.blockIndex)
                IN /\ r.err = last'.err
                   /\ ~r.err => ElementsOf(r.val) = ElementsOf(unspentTxOuts')
          /\ ~last'.err =>
                ElementsOf(unspentTxOuts')
                   = ExpectedUtxoSet(last'.transactions, unspentTxOuts)
          /\ last'.err => unspentTxOuts' = unspentTxOuts]_vars

\* a block of a coinbase and three different spends, one of them of an entry
\* of the UTXO set, was accepted
C31_Witness ==
    /\ last.op = "processTransactions"
    /\ ~last.err
    /\ Len(last.transactions) = 4
    /\ Cardinality(ElementsOf(last.transactions)) = 4
    /\ Len(unspentTxOuts) > 0
    /\ \E n \in 2..4 : Len(last.transactions[n].TxIns) > 0


\* C32: the stored cumulative difficulty, whenever it is not zero and so at
\* every comparison ReplaceChain makes with it, is the sum of 2^difficulty
\* over all blocks of the local chain, the genesis block included, after any
\* sequence of mined blocks, appended blocks and replacements.
C32_StoredDifficultyIsChainSum ==
    cumulativeBlocksDifficulty # 0 =>
       cumulativeBlocksDifficulty = GetCumulativeDifficulty(blockchain)


\* the mutexes the goroutine w holds
HeldBy(w) ==
    (IF Lock = w THEN {"Lock"} ELSE {})
      \cup (IF worker[w].pc = "idle" THEN {} ELSE worker[w].held)

\* the place of a mutex in the order chain lock, peer-list lock, peer send
\* lock; the web-client send lock is taken last
LockRank(mutex) ==
    CASE mutex = "Lock" -> 1
      [] mutex = peerSocketListLock -> 2
      [] mutex = peerSendLock -> 3
      [] mutex = webClientSendLock -> 4
      [] mutex = webClientSocketLock -> 5

\* the goroutine w has called Lock and not returned from it
Requesting(w) ==
    \/ worker[w].pc \in {"tip_lock", "app_lock", "rep_lock", "bc_lock",
                         "send_lock", "evict_lock", "dial_lock", "ws_lock"}
    \/ worker[w].pc = "web_check" /\ sockets[WebClient].state # "none"

\* a goroutine is running and none can take a step
Deadlocked ==
    /\ \E w \in Workers : worker[w].pc # "idle"
    /\ \A w \in Workers : ~ENABLED (Acquire(w) \/ Proceed(w))

\* C33: no reachable state is a deadlock; a goroutine takes a mutex only
\* after the ones it holds in the order chain lock, peer-list lock, peer
\* send lock; and, frame writes returning, every goroutine that calls Lock
\* gets the mutex.
C33_LocksTakenInOrder ==
    /\ []~Deadlocked
    /\ [][\A w \in Workers :
             \A taken \in HeldBy(w)' \ HeldBy(w) :
                \A held \in HeldBy(w) : LockRank(held) < LockRank(taken)]_vars
    /\ \A w \in Workers : Requesting(w) ~> ~Requesting(w)

\* a reader that replaced the chain writes the new tip to a peer, holding the
\* chain lock, the peer-list lock and the peer send lock, while the other
\* goroutine waits for one of them
C33_Witness ==
    \E w \in Workers, v \in Workers :
       /\ HeldBy(w) = {"Lock", peerSocketListLock, peerSendLock}
       /\ worker[w].op = "blocks"
       /\ v # w
       /\ Requesting(v)
       /\ worker[v].pc \in {"tip_lock", "bc_lock", "send_lock"}


\* pool' is pool with transactions admitted at its end, none of which pool
\* holds and no two of which are equal
AdmitsOnlyNew(pool, poolAfter) ==
    (Len(poolAfter) > Len(pool) /\ SubSeq(poolAfter, 1, Len(pool)) = pool) =>
       \A k \in (Len(pool) + 1)..Len(poolAfter) :
          \A m \in 1..(k - 1) : poolAfter[m] # poolAfter[k]

\* C34: once mineBlock and sendTx stop, gossip ends: the frames in flight
\* run out and the pools stop growing; a node never admits, and so never
\* broadcasts again, a transaction its pool already holds.
C34_GossipEnds ==
    /\ <>[](net.toPeer = <<>> /\ net.toLocal = <<>>)
    /\ [][AdmitsOnlyNew(txPool, txPool') /\ AdmitsOnlyNew(peer.txPool, peer'.txPool)]_vars

\* the timestamp rule over the integers: the block is neither at or before
\* P.ts - 60 nor at or after now + 60
TimestampRule(P, block, now_) ==
    ~(P.Fields.Ts - 60 >= block.Fields.Ts \/ block.Fields.Ts - 60 >= now_)

\* C35: the timestamp rule of IsValidBlock gives the verdict of the rule over
\* the integers for every timestamp, also when the predecessor's timestamp
\* or the block's timestamp is below 60 and ts - 60 is negative.
C35_TimestampRuleAsOverIntegers ==
    last.op = "valid" =>
       (last.valid <=>
           \/ GetLatestBlock(blockchain).Fields.Index = 0
           \/ TimestampRule(GetLatestBlock(blockchain), last.block, now))

\* C36: at a retarget whose elapsed time P.ts - R.ts is negative the
\* required difficulty is that of the computation over the integers: the
\* elapsed time counts as below half the expected time and the difficulty
\* is R.difficulty + 1.
C36_NegativeElapsedRaises ==
    (/\ last.op = "difficulty"
     /\ AtRetarget(last.block)
     /\ last.block.Fields.Ts < ReferenceBlock(blockchain, last.block).Fields.Ts)
       => last.difficulty = ReferenceBlock(blockchain, last.block).Fields.Difficulty + 1

\* C10: once connected, with every frame delivered and handled, the nodes
\* eventually hold the same chain for good, the heaviest one held by either.
C10_NodesConverge == <>[](blockchain = peer.blockchain)
====
